---- MODULE Spec2Model ----
(***************************************************************************)
(* Model of the simplified trading-agents pipeline: the five Stage nodes   *)
(* (market, fundamentals, bull, bear, supervisor) sequenced by             *)
(* TradingAgentsGraph, the stand-alone news Stage with its evidence        *)
(* Selector, and the Selector's pure helpers.                              *)
(*                                                                         *)
(* Conventions.                                                            *)
(*  - Floats are carried in hundredths: 0.3 is 30, 1.0 is 100, 10.0 is     *)
(*    1000.                                                                *)
(*  - A Python string holding json.dumps(d) is the one-element sequence    *)
(*    <<d>>; the empty string "" is <<>>.                                  *)
(*  - Character strings that the code slices, lower-cases or searches are  *)
(*    sequences of one-character strings.                                  *)
(*  - A raw model response is a sequence of tokens (fence, language tag,   *)
(*    whitespace, JSON body, junk).                                        *)
(***************************************************************************)
EXTENDS Integers, Sequences, FiniteSets, TLC

VARIABLES
    pc,           \* position of TradingAgentsGraph.analyze / of the harness
    debug,        \* TradingAgentsGraph.debug
    llm_caps,     \* [llm, supervisor_llm] -> has with_structured_output
    state,        \* the shared TradingState (WorkItem) of the run
    frontier,     \* nodes the compiled graph has scheduled next
    executed,     \* nodes that have run, in order
    last,         \* what the most recent node invocation did
    result,       \* what analyze handed back to its caller
    fn_in,        \* input of the helper under test
    fn_out        \* output of the helper under test

vars == <<pc, debug, llm_caps, state, frontier, executed, last, result, fn_in, fn_out>>

(***************************************************************************)
(* Enumerated domains of the schemas                                       *)
(***************************************************************************)
Sentiment3 == {"bullish", "bearish", "neutral"}
Direction4 == {"bullish", "bearish", "neutral", "mixed"}
ValuationVerdicts == {"undervalued", "fairly_valued", "overvalued", "insufficient_data"}
HealthRatings == {"excellent", "good", "fair", "poor", "critical"}
GrowthTrends == {"accelerating", "steady", "slowing", "declining", "volatile"}
Sustainability == {"high", "medium", "low", "uncertain"}
FundamentalRatings == {"strong_buy", "buy", "hold", "sell", "strong_sell"}
BullDirections == {"significantly_higher", "moderately_higher", "slightly_higher"}
BearDirections == {"significantly_lower", "moderately_lower", "slightly_lower"}
TimeHorizons == {"short_term", "medium_term", "long_term", "multi_timeframe"}
BullActions == {"strong_buy", "buy", "accumulate"}
BearActions == {"strong_sell", "sell", "avoid"}
TierActions == {"strong_buy", "buy", "accumulate", "hold", "reduce", "sell", "strong_sell"}
PositionSizes == {"full", "half", "quarter", "minimal", "zero"}

InRange(x, lo, hi) == x \in Int /\ lo <= x /\ x <= hi

(***************************************************************************)
(* Schemas: each predicate is TRUE exactly when pydantic accepts the dict  *)
(***************************************************************************)
TrendAnalysis(t) ==
    /\ t.short_term \in Sentiment3
    /\ t.medium_term \in Sentiment3
    /\ t.long_term \in Sentiment3

IndicatorAnalysis(i) == i.signal \in Sentiment3

MarketAnalysisOutput(r) ==
    /\ \A k \in 1..Len(r.selected_indicators) : IndicatorAnalysis(r.selected_indicators[k])
    /\ TrendAnalysis(r.trend_analysis)
    /\ r.market_sentiment \in Sentiment3
    /\ InRange(r.confidence_score, 0, 100)

ValuationMetrics(v) == v.valuation_verdict \in ValuationVerdicts

FinancialHealthMetrics(h) ==
    /\ InRange(h.liquidity_score, 0, 1000)
    /\ InRange(h.leverage_score, 0, 1000)
    /\ InRange(h.profitability_score, 0, 1000)
    /\ InRange(h.cash_flow_score, 0, 1000)
    /\ h.overall_health \in HealthRatings

GrowthMetrics(g) ==
    /\ g.revenue_growth_trend \in GrowthTrends
    /\ g.earnings_growth_trend \in GrowthTrends
    /\ g.growth_sustainability \in Sustainability

FundamentalAnalysisOutput(r) ==
    /\ ValuationMetrics(r.valuation)
    /\ FinancialHealthMetrics(r.financial_health)
    /\ GrowthMetrics(r.growth)
    /\ r.fundamental_rating \in FundamentalRatings
    /\ InRange(r.confidence_score, 0, 100)

BullCaseOutput(r) ==
    /\ r.target_price_direction \in BullDirections
    /\ r.time_horizon \in TimeHorizons
    /\ InRange(r.conviction_score, 0, 100)
    /\ r.recommended_action \in BullActions

BearCaseOutput(r) ==
    /\ r.target_price_direction \in BearDirections
    /\ r.time_horizon \in TimeHorizons
    /\ InRange(r.conviction_score, 0, 100)
    /\ r.recommended_action \in BearActions

RiskTieredRecommendation(t) ==
    /\ t.action \in TierActions
    /\ t.position_size \in PositionSizes

TimeHorizonOutlook(t) ==
    /\ t.short_term \in Sentiment3
    /\ t.medium_term \in Sentiment3
    /\ t.long_term \in Sentiment3

SupervisorDecision(r) ==
    /\ InRange(r.bull_case_strength, 0, 1000)
    /\ InRange(r.bear_case_strength, 0, 1000)
    /\ r.consensus_direction \in Direction4
    /\ RiskTieredRecommendation(r.low_risk_recommendation)
    /\ RiskTieredRecommendation(r.medium_risk_recommendation)
    /\ RiskTieredRecommendation(r.high_risk_recommendation)
    /\ TimeHorizonOutlook(r.time_horizon_outlook)
    /\ InRange(r.final_confidence, 0, 100)

ImpactScopes == {"company", "sector", "macro"}
ThemeDirections == {"tailwind", "headwind", "mixed"}
DemandOutlooks == {"positive", "negative", "neutral", "uncertain"}
CostPressures == {"increasing", "decreasing", "stable", "uncertain"}
RegulatoryRisks == {"elevated", "moderate", "low", "uncertain"}
ValuationImpacts == {"expansion", "compression", "neutral", "uncertain"}

NewsItem(a) ==
    /\ a.sentiment \in Sentiment3
    /\ a.impact_scope \in ImpactScopes
    /\ InRange(a.relevance_score, 0, 100)

MacroTheme(m) ==
    /\ m.direction \in ThemeDirections
    /\ m.evidence_count \in Int /\ m.evidence_count >= 0

CompanyImpact(ci) ==
    /\ ci.demand_outlook \in DemandOutlooks
    /\ ci.cost_pressure \in CostPressures
    /\ ci.regulatory_risk \in RegulatoryRisks
    /\ ci.valuation_impact \in ValuationImpacts

NewsAnalysisOutput(r) ==
    /\ InRange(r.lookback_window_days, 1, 30)
    /\ \A k \in DOMAIN r.coverage_stats : r.coverage_stats[k] \in Int
    /\ \A k \in 1..Len(r.macro_themes) : MacroTheme(r.macro_themes[k])
    /\ CompanyImpact(r.company_impact)
    /\ r.overall_sentiment \in Sentiment3
    /\ InRange(r.confidence_score, 0, 100)
    /\ \A k \in 1..Len(r.highlighted_articles) : NewsItem(r.highlighted_articles[k])

\* Validation against the schema of a node, by node name.
Validates(node, r) ==
    CASE node = "market_analyst" -> MarketAnalysisOutput(r)
      [] node = "fundamentals_analyst" -> FundamentalAnalysisOutput(r)
      [] node = "bull_debater" -> BullCaseOutput(r)
      [] node = "bear_debater" -> BearCaseOutput(r)
      [] node = "supervisor" -> SupervisorDecision(r)
      [] node = "news_analyst" -> NewsAnalysisOutput(r)

(***************************************************************************)
(* Static records of the Stages                                            *)
(***************************************************************************)
NeutralTrend == [short_term |-> "neutral", medium_term |-> "neutral", long_term |-> "neutral"]

\* market_analyst_node: the record built when data fetching raised
MarketErrorOutput ==
    [analysis_summary |-> "Unable to analyze due to data fetching error",
     selected_indicators |-> <<>>,
     trend_analysis |-> NeutralTrend,
     key_insights |-> <<"Data error">>,
     risk_factors |-> <<"Unable to fetch market data">>,
     market_sentiment |-> "neutral",
     confidence_score |-> 0]

\* market_analyst_node: the parsing fallback
MarketFallback ==
    [analysis_summary |-> "Analysis completed but encountered formatting issues",
     selected_indicators |-> <<>>,
     trend_analysis |-> NeutralTrend,
     key_insights |-> <<"Unable to parse structured analysis", "Error">>,
     risk_factors |-> <<"Analysis parsing error">>,
     market_sentiment |-> "neutral",
     confidence_score |-> 30]

\* fundamentals_analyst_node: the record built when >= 4 fetches raised
FundamentalErrorOutput(errors) ==
    [analysis_summary |-> "Unable to perform fundamental analysis due to multiple data fetching errors",
     valuation |-> [valuation_verdict |-> "insufficient_data",
                    valuation_reasoning |-> "Insufficient data to assess valuation"],
     financial_health |-> [liquidity_score |-> 0, leverage_score |-> 0,
                           profitability_score |-> 0, cash_flow_score |-> 0,
                           overall_health |-> "critical"],
     growth |-> [revenue_growth_trend |-> "uncertain",
                 earnings_growth_trend |-> "uncertain",
                 growth_sustainability |-> "uncertain",
                 growth_drivers |-> <<"Data unavailable">>],
     key_strengths |-> <<>>,
     red_flags |-> errors,
     fundamental_rating |-> "hold",
     confidence_score |-> 0]

\* fundamentals_analyst_node: the parsing fallback
FundamentalFallback ==
    [analysis_summary |-> "Fundamental analysis completed but encountered formatting issues",
     valuation |-> [valuation_verdict |-> "insufficient_data",
                    valuation_reasoning |-> "Unable to complete valuation assessment due to parsing error"],
     financial_health |-> [liquidity_score |-> 500, leverage_score |-> 500,
                           profitability_score |-> 500, cash_flow_score |-> 500,
                           overall_health |-> "fair"],
     growth |-> [revenue_growth_trend |-> "uncertain",
                 earnings_growth_trend |-> "uncertain",
                 growth_sustainability |-> "uncertain",
                 growth_drivers |-> <<"Analysis parsing error - see raw data">>],
     key_strengths |-> <<"Data collected successfully">>,
     red_flags |-> <<"Analysis formatting error">>,
     fundamental_rating |-> "hold",
     confidence_score |-> 30]

\* bull_debater_node: the parsing fallback
BullFallback ==
    [thesis_summary |-> "Bull case could not be fully formulated due to parsing error",
     target_price_direction |-> "moderately_higher",
     time_horizon |-> "medium_term",
     conviction_score |-> 30,
     recommended_action |-> "accumulate"]

\* bear_debater_node: the parsing fallback
BearFallback ==
    [thesis_summary |-> "Bear case could not be fully formulated due to parsing error",
     target_price_direction |-> "moderately_lower",
     time_horizon |-> "medium_term",
     conviction_score |-> 30,
     recommended_action |-> "avoid"]

\* supervisor_node: the fallback decision
SupervisorFallback ==
    [executive_summary |-> "Investment decision could not be fully formulated due to parsing error",
     bull_case_strength |-> 500,
     bear_case_strength |-> 500,
     consensus_direction |-> "neutral",
     low_risk_recommendation |-> [action |-> "hold", position_size |-> "minimal"],
     medium_risk_recommendation |-> [action |-> "hold", position_size |-> "quarter"],
     high_risk_recommendation |-> [action |-> "hold", position_size |-> "half"],
     time_horizon_outlook |-> NeutralTrend,
     final_confidence |-> 20]

(***************************************************************************)
(* What the model transport may hand back: sample dicts per schema, some   *)
(* conforming and some not                                                 *)
(***************************************************************************)
MarketDicts ==
    {[analysis_summary |-> "llm", selected_indicators |-> <<[name |-> "RSI", signal |-> "bullish"]>>,
      trend_analysis |-> [short_term |-> "bullish", medium_term |-> "neutral", long_term |-> "bearish"],
      key_insights |-> <<"llm">>, risk_factors |-> <<"llm">>,
      market_sentiment |-> "bullish", confidence_score |-> 80],
     [analysis_summary |-> "llm", selected_indicators |-> <<>>,
      trend_analysis |-> NeutralTrend,
      key_insights |-> <<"llm">>, risk_factors |-> <<"llm">>,
      market_sentiment |-> "very_bullish", confidence_score |-> 80],
     [analysis_summary |-> "llm", selected_indicators |-> <<>>,
      trend_analysis |-> NeutralTrend,
      key_insights |-> <<"llm">>, risk_factors |-> <<"llm">>,
      market_sentiment |-> "bearish", confidence_score |-> 150]}

FundamentalDicts ==
    {[analysis_summary |-> "llm",
      valuation |-> [valuation_verdict |-> "undervalued", valuation_reasoning |-> "llm"],
      financial_health |-> [liquidity_score |-> 700, leverage_score |-> 600,
                            profitability_score |-> 800, cash_flow_score |-> 1000,
                            overall_health |-> "good"],
      growth |-> [revenue_growth_trend |-> "steady", earnings_growth_trend |-> "accelerating",
                  growth_sustainability |-> "high", growth_drivers |-> <<"llm">>],
      key_strengths |-> <<"llm">>, red_flags |-> <<"llm">>,
      fundamental_rating |-> "buy", confidence_score |-> 70],
     [analysis_summary |-> "llm",
      valuation |-> [valuation_verdict |-> "overvalued", valuation_reasoning |-> "llm"],
      financial_health |-> [liquidity_score |-> 700, leverage_score |-> 600,
                            profitability_score |-> 800, cash_flow_score |-> 1100,
                            overall_health |-> "good"],
      growth |-> [revenue_growth_trend |-> "uncertain", earnings_growth_trend |-> "steady",
                  growth_sustainability |-> "high", growth_drivers |-> <<"llm">>],
      key_strengths |-> <<"llm">>, red_flags |-> <<"llm">>,
      fundamental_rating |-> "sell", confidence_score |-> 70]}

BullDicts ==
    {[thesis_summary |-> "llm", target_price_direction |-> "significantly_higher",
      time_horizon |-> "long_term", conviction_score |-> 90, recommended_action |-> "strong_buy"],
     [thesis_summary |-> "llm", target_price_direction |-> "moderately_lower",
      time_horizon |-> "long_term", conviction_score |-> 90, recommended_action |-> "buy"]}

BearDicts ==
    {[thesis_summary |-> "llm", target_price_direction |-> "slightly_lower",
      time_horizon |-> "short_term", conviction_score |-> 100, recommended_action |-> "sell"],
     [thesis_summary |-> "llm", target_price_direction |-> "slightly_lower",
      time_horizon |-> "short_term", conviction_score |-> -10, recommended_action |-> "hold"]}

SupervisorDicts ==
    {[executive_summary |-> "llm", bull_case_strength |-> 700, bear_case_strength |-> 300,
      consensus_direction |-> "bullish",
      low_risk_recommendation |-> [action |-> "accumulate", position_size |-> "quarter"],
      medium_risk_recommendation |-> [action |-> "buy", position_size |-> "half"],
      high_risk_recommendation |-> [action |-> "strong_buy", position_size |-> "full"],
      time_horizon_outlook |-> [short_term |-> "neutral", medium_term |-> "bullish", long_term |-> "bullish"],
      final_confidence |-> 75],
     [executive_summary |-> "llm", bull_case_strength |-> 400, bear_case_strength |-> 600,
      consensus_direction |-> "mixed",
      low_risk_recommendation |-> [action |-> "reduce", position_size |-> "zero"],
      medium_risk_recommendation |-> [action |-> "hold", position_size |-> "minimal"],
      high_risk_recommendation |-> [action |-> "buy", position_size |-> "half"],
      time_horizon_outlook |-> NeutralTrend,
      final_confidence |-> 50],
     [executive_summary |-> "llm", bull_case_strength |-> 400, bear_case_strength |-> 600,
      consensus_direction |-> "buy",
      low_risk_recommendation |-> [action |-> "reduce", position_size |-> "zero"],
      medium_risk_recommendation |-> [action |-> "hold", position_size |-> "minimal"],
      high_risk_recommendation |-> [action |-> "buy", position_size |-> "half"],
      time_horizon_outlook |-> NeutralTrend,
      final_confidence |-> 50]}

UncertainImpact ==
    [demand_outlook |-> "uncertain", cost_pressure |-> "uncertain",
     regulatory_risk |-> "uncertain", valuation_impact |-> "uncertain"]

\* news_analyst_node: "Hard fallback if nothing kept"
NewsNothingKept(lookback_days, raw_total) ==
    [analysis_summary |-> "No company-relevant news found",
     lookback_window_days |-> lookback_days,
     coverage_stats |-> [articles |-> 0, sources |-> 0, unique_topics |-> 0, raw_articles |-> raw_total],
     macro_themes |-> <<>>,
     company_impact |-> UncertainImpact,
     overall_sentiment |-> "neutral",
     confidence_score |-> 15,
     highlighted_articles |-> <<>>,
     sources |-> {}]

\* news_analyst_node: "Parsing fallback JSON"
NewsFallback(lookback_days, n_kept, srcs, unique_topics, raw_total) ==
    [analysis_summary |-> "News analysis completed but encountered formatting issues",
     lookback_window_days |-> lookback_days,
     coverage_stats |-> [articles |-> n_kept, sources |-> Cardinality(srcs),
                         unique_topics |-> unique_topics, raw_articles |-> raw_total],
     macro_themes |-> <<>>,
     company_impact |-> UncertainImpact,
     overall_sentiment |-> "neutral",
     confidence_score |-> 35,
     highlighted_articles |-> <<>>,
     sources |-> srcs]

NewsDicts ==
    {[analysis_summary |-> "llm", lookback_window_days |-> 7,
      coverage_stats |-> [articles |-> 1, sources |-> 1, unique_topics |-> 1, raw_articles |-> 2],
      macro_themes |-> <<[theme |-> "llm", direction |-> "tailwind", evidence_count |-> 1]>>,
      company_impact |-> [demand_outlook |-> "positive", cost_pressure |-> "stable",
                          regulatory_risk |-> "low", valuation_impact |-> "expansion"],
      overall_sentiment |-> "bullish", confidence_score |-> 60,
      highlighted_articles |-> <<[sentiment |-> "bullish", impact_scope |-> "company", relevance_score |-> 100]>>,
      sources |-> {}],
     [analysis_summary |-> "llm", lookback_window_days |-> 7,
      coverage_stats |-> [articles |-> 1, sources |-> 1, unique_topics |-> 1, raw_articles |-> 2],
      macro_themes |-> <<>>,
      company_impact |-> [demand_outlook |-> "strong", cost_pressure |-> "stable",
                          regulatory_risk |-> "low", valuation_impact |-> "expansion"],
      overall_sentiment |-> "bullish", confidence_score |-> 60,
      highlighted_articles |-> <<>>,
      sources |-> {}]}

DictsOf(node) ==
    CASE node = "market_analyst" -> MarketDicts
      [] node = "fundamentals_analyst" -> FundamentalDicts
      [] node = "bull_debater" -> BullDicts
      [] node = "bear_debater" -> BearDicts
      [] node = "supervisor" -> SupervisorDicts
      [] node = "news_analyst" -> NewsDicts

(***************************************************************************)
(* Raw model text and the raw-text tier                                    *)
(***************************************************************************)
Fence == [t |-> "fence", d |-> <<>>]      \* the three characters ```
JsonTag == [t |-> "json", d |-> <<>>]     \* the four characters json
OtherTag == [t |-> "lang", d |-> <<>>]    \* any other language tag
Ws == [t |-> "ws", d |-> <<>>]            \* white space, new line
Junk == [t |-> "junk", d |-> <<>>]        \* prose that is not JSON
Body(dict) == [t |-> "body", d |-> <<dict>>]   \* the JSON text of dict

\* str.strip()
RECURSIVE lstrip(_)
lstrip(text) ==
    IF text # <<>> /\ Head(text).t = "ws" THEN lstrip(Tail(text)) ELSE text

RECURSIVE rstrip(_)
rstrip(text) ==
    IF text # <<>> /\ text[Len(text)].t = "ws"
    THEN rstrip(SubSeq(text, 1, Len(text) - 1))
    ELSE text

strip(text) == rstrip(lstrip(text))

startswith(text, prefix) ==
    Len(text) >= Len(prefix) /\ SubSeq(text, 1, Len(prefix)) = prefix

endswith(text, suffix) ==
    Len(text) >= Len(suffix)
    /\ SubSeq(text, Len(text) - Len(suffix) + 1, Len(text)) = suffix

\* "Clean potential markdown formatting": the three ifs between two strips
StripFences(response_text) ==
    LET t0 == strip(response_text)
        t1 == IF startswith(t0, <<Fence, JsonTag>>) THEN SubSeq(t0, 3, Len(t0)) ELSE t0
        t2 == IF startswith(t1, <<Fence>>) THEN Tail(t1) ELSE t1
        t3 == IF endswith(t2, <<Fence>>) THEN SubSeq(t2, 1, Len(t2) - 1) ELSE t2
    IN  strip(t3)

\* json.loads: white space around one JSON document is accepted, all else raises
json_loads(text) ==
    LET t == strip(text)
    IN  IF Len(t) = 1 /\ t[1].t = "body"
        THEN [ok |-> TRUE, value |-> t[1].d]
        ELSE [ok |-> FALSE, value |-> <<>>]

\* json.dumps(d, indent=2): a non-empty string holding d
json_dumps(dict) == <<dict>>

(***************************************************************************)
(* Outcomes of one call of the model transport                             *)
(***************************************************************************)
LLMRaise == [kind |-> "raise", obj |-> <<>>, text |-> <<>>]
LLMObject(dict) == [kind |-> "object", obj |-> <<dict>>, text |-> <<>>]
LLMText(text) == [kind |-> "text", obj |-> <<>>, text |-> text]

\* the texts a transport may answer with, around each sample dict
RawTexts(dicts) ==
    UNION {{ <<Body(x)>>,
             <<Ws, Body(x), Ws>>,
             <<Fence, JsonTag, Ws, Body(x), Ws, Fence>>,
             <<Fence, Ws, Body(x), Ws, Fence>>,
             <<Fence, OtherTag, Ws, Body(x), Ws, Fence>>,
             <<Junk, Body(x)>> } : x \in dicts}
    \cup {<<>>, <<Junk>>}

\* structured transport: a conforming object or an exception;
\* plain transport: a text or an exception
LLMOutcomes(node, structured) ==
    IF structured
    THEN {LLMRaise} \cup {LLMObject(x) : x \in {y \in DictsOf(node) : Validates(node, y)}}
    ELSE {LLMRaise} \cup {LLMText(x) : x \in RawTexts(DictsOf(node))}

\* the variant that retries through the raw-text path after a failed
\* schema-enforced call
ExtractorTiersRetry(node, structured, out, fallback) ==
    IF structured
    THEN IF out.kind = "object"
         THEN [tier |-> "tier1", json |-> out.obj[1], invoked |-> <<"structured">>]
         ELSE [tier |-> "fallback", json |-> fallback, invoked |-> <<"structured", "raw">>]
    ELSE IF out.kind = "text"
         THEN LET parsed == json_loads(StripFences(out.text))
              IN  IF parsed.ok /\ Validates(node, parsed.value[1])
                  THEN [tier |-> "tier2", json |-> parsed.value[1], invoked |-> <<"raw">>]
                  ELSE [tier |-> "fallback", json |-> fallback, invoked |-> <<"raw">>]
         ELSE [tier |-> "fallback", json |-> fallback, invoked |-> <<"raw">>]

\* Step "Get structured response from LLM": try / if hasattr / else / except;
\* invoked: the invocations of the transport, in order
ExtractorTiers(node, structured, out, fallback) ==
    IF structured
    THEN IF out.kind = "object"
         THEN [tier |-> "tier1", json |-> out.obj[1], invoked |-> <<"structured">>]
         ELSE [tier |-> "fallback", json |-> fallback, invoked |-> <<"structured">>]
    ELSE IF out.kind = "text"
         THEN LET parsed == json_loads(StripFences(out.text))
              IN  IF parsed.ok /\ Validates(node, parsed.value[1])
                  THEN [tier |-> "tier2", json |-> parsed.value[1], invoked |-> <<"raw">>]
                  ELSE [tier |-> "fallback", json |-> fallback, invoked |-> <<"raw">>]
         ELSE [tier |-> "fallback", json |-> fallback, invoked |-> <<"raw">>]

(***************************************************************************)
(* The Stage nodes.  A node takes the state and what its collaborators do  *)
(* (c[call] = TRUE: that collector call raises; out: the transport's       *)
(* outcome) and yields what it did and the update it returns.              *)
(***************************************************************************)
HumanMessage(node) == [type |-> "human", node |-> node]
AIMessage(node) == [type |-> "ai", node |-> node]

NoUpdate == <<>>

Returned(update, calls, placeholders, invoked, path) ==
    [raised |-> FALSE, update |-> update, collector_calls |-> calls,
     placeholders |-> placeholders, model_calls |-> Len(invoked), invoked |-> invoked,
     path |-> path]

Raised(calls, invoked, path) ==
    [raised |-> TRUE, update |-> NoUpdate, collector_calls |-> calls,
     placeholders |-> {}, model_calls |-> Len(invoked), invoked |-> invoked, path |-> path]

\* the calls a try block issues: in order, up to the first that raises
RECURSIVE TryCalls(_, _)
TryCalls(calls, c) ==
    IF calls = <<>> THEN <<>>
    ELSE IF c[Head(calls)] THEN <<Head(calls)>>
    ELSE <<Head(calls)>> \o TryCalls(Tail(calls), c)

TryRaised(calls, c) == \E i \in 1..Len(calls) : c[calls[i]]

MarketFetch == <<"get_stock_data", "get_technical_indicators">>

market_analyst_node(st, c, structured, out) ==
    LET calls == TryCalls(MarketFetch, c)
    IN  IF TryRaised(MarketFetch, c)
        THEN IF MarketAnalysisOutput(MarketErrorOutput)
             THEN Returned([messages |-> <<AIMessage("market_analyst")>>,
                            market_analysis |-> json_dumps(MarketErrorOutput)],
                           calls, {}, <<>>, "short_circuit")
             ELSE Raised(calls, <<>>, "short_circuit")
        ELSE LET e == ExtractorTiers("market_analyst", structured, out, MarketFallback)
             IN  Returned([messages |-> <<HumanMessage("market_analyst"), AIMessage("market_analyst")>>,
                           market_analysis |-> json_dumps(e.json)],
                          calls, {}, e.invoked, e.tier)

\* the five try blocks of the fundamentals node, in order
FundamentalFetch ==
    << [name |-> "company_overview", calls |-> <<"get_company_overview">>],
       [name |-> "balance_sheet", calls |-> <<"get_balance_sheet_quarterly", "get_balance_sheet_annual">>],
       [name |-> "income_statement", calls |-> <<"get_income_statement_quarterly", "get_income_statement_annual">>],
       [name |-> "cash_flow", calls |-> <<"get_cash_flow_quarterly", "get_cash_flow_annual">>],
       [name |-> "earnings", calls |-> <<"get_earnings">>] >>

RECURSIVE FundamentalCalls(_, _)
FundamentalCalls(blocks, c) ==
    IF blocks = <<>> THEN <<>>
    ELSE TryCalls(Head(blocks).calls, c) \o FundamentalCalls(Tail(blocks), c)

RECURSIVE FundamentalErrors(_, _)
FundamentalErrors(blocks, c) ==
    IF blocks = <<>> THEN <<>>
    ELSE (IF TryRaised(Head(blocks).calls, c) THEN <<Head(blocks).name>> ELSE <<>>)
         \o FundamentalErrors(Tail(blocks), c)

\* "if len(errors) >= 4"
CRITICAL_ERRORS == 4

fundamentals_analyst_node(st, c, structured, out) ==
    LET calls == FundamentalCalls(FundamentalFetch, c)
        errors == FundamentalErrors(FundamentalFetch, c)
        failed == {errors[i] : i \in 1..Len(errors)}
    IN  IF Len(errors) >= CRITICAL_ERRORS
        THEN IF FundamentalAnalysisOutput(FundamentalErrorOutput(errors))
             THEN Returned([messages |-> <<AIMessage("fundamentals_analyst")>>,
                            fundamental_analysis |-> json_dumps(FundamentalErrorOutput(errors))],
                           calls, failed, <<>>, "short_circuit")
             ELSE Raised(calls, <<>>, "short_circuit")
        ELSE LET e == ExtractorTiers("fundamentals_analyst", structured, out, FundamentalFallback)
             IN  Returned([messages |-> <<HumanMessage("fundamentals_analyst"), AIMessage("fundamentals_analyst")>>,
                           fundamental_analysis |-> json_dumps(e.json)],
                          calls, failed, e.invoked, e.tier)

\* bull_debater_v2.py and supervisor_v2.py hold both sides of an unresolved
\* merge (prompt wording, fallback texts); the steps below are the same on
\* both sides.
bull_debater_node(st, c, structured, out) ==
    LET e == ExtractorTiers("bull_debater", structured, out, BullFallback)
    IN  Returned([messages |-> <<HumanMessage("bull_debater"), AIMessage("bull_debater")>>,
                  bull_argument |-> json_dumps(e.json)],
                 <<>>, {}, e.invoked, e.tier)

\* the bear Stage also rewriting the bull record
bear_debater_node_rewrites_bull(st, c, structured, out) ==
    LET e == ExtractorTiers("bear_debater", structured, out, BearFallback)
    IN  Returned([messages |-> <<HumanMessage("bear_debater"), AIMessage("bear_debater")>>,
                  bull_argument |-> json_dumps(e.json),
                  bear_argument |-> json_dumps(e.json)],
                 <<>>, {}, e.invoked, e.tier)

bear_debater_node(st, c, structured, out) ==
    LET e == ExtractorTiers("bear_debater", structured, out, BearFallback)
    IN  Returned([messages |-> <<HumanMessage("bear_debater"), AIMessage("bear_debater")>>,
                  bear_argument |-> json_dumps(e.json)],
                 <<>>, {}, e.invoked, e.tier)

\* the synthesis Stage leaving the top-level label at its initial value
supervisor_node_keeps_label(st, c, structured, out) ==
    LET e == ExtractorTiers("supervisor", structured, out, SupervisorFallback)
    IN  Returned([messages |-> <<HumanMessage("supervisor"), AIMessage("supervisor")>>,
                  decision |-> "neutral",
                  rationale |-> e.json.executive_summary,
                  confidence |-> e.json.final_confidence,
                  supervisor_decision |-> json_dumps(e.json)],
                 <<>>, {}, e.invoked, e.tier)

supervisor_node(st, c, structured, out) ==
    LET e == ExtractorTiers("supervisor", structured, out, SupervisorFallback)
    IN  Returned([messages |-> <<HumanMessage("supervisor"), AIMessage("supervisor")>>,
                  decision |-> e.json.consensus_direction,
                  rationale |-> e.json.executive_summary,
                  confidence |-> e.json.final_confidence,
                  supervisor_decision |-> json_dumps(e.json)],
                 <<>>, {}, e.invoked, e.tier)

(***************************************************************************)
(* Evidence Selector (news_analyst.py).  Strings are sequences of          *)
(* characters; None is the value None_; a dict is a record and a missing   *)
(* key is a field the record does not have.                                *)
(***************************************************************************)
None_ == <<"None">>

Truthy(v) == v # <<>> /\ v # None_

\* dict.get(key) and dict.get(key, default)
get(it, key) == IF key \in DOMAIN it THEN it[key] ELSE None_
get_default(it, key, default) == IF key \in DOMAIN it THEN it[key] ELSE default

\* a or b
or_(a, b) == IF Truthy(a) THEN a ELSE b

UpperToLower ==
    [ch \in {"A", "B", "U"} |-> CASE ch = "A" -> "a" [] ch = "B" -> "b" [] ch = "U" -> "u"]

\* str.lower()
lower(str) ==
    [k \in 1..Len(str) |-> IF str[k] \in DOMAIN UpperToLower THEN UpperToLower[str[k]] ELSE str[k]]

LowerToUpper ==
    [ch \in {"a", "b", "u"} |-> CASE ch = "a" -> "A" [] ch = "b" -> "B" [] ch = "u" -> "U"]

\* str.upper()
upper(str) ==
    [k \in 1..Len(str) |-> IF str[k] \in DOMAIN LowerToUpper THEN LowerToUpper[str[k]] ELSE str[k]]

\* str.strip() on characters
RECURSIVE lstrip_chars(_)
lstrip_chars(str) ==
    IF str # <<>> /\ Head(str) = " " THEN lstrip_chars(Tail(str)) ELSE str

RECURSIVE rstrip_chars(_)
rstrip_chars(str) ==
    IF str # <<>> /\ str[Len(str)] = " "
    THEN rstrip_chars(SubSeq(str, 1, Len(str) - 1))
    ELSE str

strip_chars(str) == rstrip_chars(lstrip_chars(str))

\* needle in haystack (substring)
contains(haystack, needle) ==
    \E k \in 0..(Len(haystack) - Len(needle)) :
        SubSeq(haystack, k + 1, k + Len(needle)) = needle

\* hashlib.md5(x.encode()).hexdigest(): equal digests for equal strings;
\* distinct strings of the bounded domain get distinct digests
md5(str) == [md5 |-> str]

_hash_url(url) == md5(lower(strip_chars(url)))

\* title[:64]
TITLE_KEY_LEN == 64

\* str[:n]: a slice stops at the end of the string
slice_to(str, n) == SubSeq(str, 1, IF Len(str) < n THEN Len(str) ELSE n)

dedupe_hash(it) ==
    \* the key _dedupe_articles computes for one item
    LET url == or_(or_(get(it, "url"), get(it, "link")), <<>>)
    IN  IF Truthy(url)
        THEN _hash_url(url)
        ELSE md5(slice_to(get_default(it, "title", <<>>), TITLE_KEY_LEN))

\* the loop without seen.add(h)
RECURSIVE dedupe_loop_no_add(_, _, _)
dedupe_loop_no_add(items, seen, out) ==
    IF items = <<>> THEN out
    ELSE LET h == dedupe_hash(Head(items))
         IN  IF h \in seen
             THEN dedupe_loop_no_add(Tail(items), seen, out)
             ELSE dedupe_loop_no_add(Tail(items), seen, Append(out, Head(items)))

RECURSIVE dedupe_loop(_, _, _)
dedupe_loop(items, seen, out) ==
    IF items = <<>> THEN out
    ELSE LET h == dedupe_hash(Head(items))
         IN  IF h \in seen
             THEN dedupe_loop(Tail(items), seen, out)
             ELSE dedupe_loop(Tail(items), seen \cup {h}, Append(out, Head(items)))

_dedupe_articles(items) == dedupe_loop(items, {}, <<>>)

\* _dedupe_articles raises TypeError when it slices a title that is None
dedupe_raises(items) ==
    \E k \in 1..Len(items) :
        /\ ~Truthy(or_(or_(get(items[k], "url"), get(items[k], "link")), <<>>))
        /\ get_default(items[k], "title", <<>>) = None_

\* _iso: a string is returned as it is
_iso(dt) == dt

_normalize_dict_list(items) ==
    [k \in 1..Len(items) |->
        [title |-> or_(get(items[k], "title"), <<>>),
         published_at |-> _iso(or_(or_(get(items[k], "published_at"), get(items[k], "date")), <<>>)),
         source |-> or_(or_(get(items[k], "source"), get(items[k], "publisher")), <<>>),
         url |-> or_(or_(get(items[k], "url"), get(items[k], "link")), <<>>),
         snippet |-> or_(or_(get(items[k], "snippet"), get(items[k], "summary")), <<>>)]]

Hits(text, terms) == Cardinality({k \in 1..Len(terms) : contains(text, lower(terms[k]))})

\* the sum left as it is
NoClamp(x) == x

\* max(0.0, min(score, 1.0)), in hundredths
Clamp01(x) == IF x < 0 THEN 0 ELSE IF x > 100 THEN 100 ELSE x

\* the scope decided with the sector flag ahead of the direct hit
relevance_of_sector_first(title, text, ticker, aliases, competitors, sector_tags, macro_terms) ==
    LET ticker_hit == Truthy(ticker) /\ contains(text, lower(ticker))
        alias_hits == Hits(text, aliases)
    IN  [score |-> Clamp01((IF ticker_hit THEN 55 ELSE 0)
                           + 45 * alias_hits
                           + 25 * Hits(text, competitors)
                           + 20 * Hits(text, sector_tags)
                           + 12 * Hits(text, macro_terms)
                           - (IF Len(title) < 8 THEN 8 ELSE 0)),
         scope |-> IF Hits(text, sector_tags) > 0 THEN "sector"
                   ELSE IF ticker_hit \/ alias_hits > 0 THEN "company"
                   ELSE "macro"]

\* the weighted sum, its clamp and the scope, from the lowered title and text
relevance_of(title, text, ticker, aliases, competitors, sector_tags, macro_terms) ==
    LET ticker_hit == Truthy(ticker) /\ contains(text, lower(ticker))
        alias_hits == Hits(text, aliases)
    IN  [score |-> Clamp01((IF ticker_hit THEN 55 ELSE 0)
                           + 45 * alias_hits
                           + 25 * Hits(text, competitors)
                           + 20 * Hits(text, sector_tags)
                           + 12 * Hits(text, macro_terms)
                           - (IF Len(title) < 8 THEN 8 ELSE 0)),
         scope |-> IF ticker_hit \/ alias_hits > 0 THEN "company"
                   ELSE IF Hits(text, sector_tags) > 0 THEN "sector"
                   ELSE IF Hits(text, macro_terms) > 0 THEN "macro"
                   ELSE "macro"]

title_and_text(title, snippet) == [title |-> title, text |-> title \o <<" ">> \o snippet]

relevance_of_text(tt, ticker, aliases, competitors, sector_tags, macro_terms) ==
    relevance_of(tt.title, tt.text, ticker, aliases, competitors, sector_tags, macro_terms)

compute_relevance(item, ticker, aliases, competitors, sector_tags, macro_terms) ==
    relevance_of_text(title_and_text(lower(or_(get(item, "title"), <<>>)),
                                     lower(or_(get(item, "snippet"), <<>>))),
                      ticker, aliases, competitors, sector_tags, macro_terms)

\* it["relevance_score"] = sc; it["impact_scope"] = scope
annotate(it, r) ==
    [k \in DOMAIN it \cup {"relevance_score", "impact_scope"} |->
        IF k = "relevance_score" THEN r.score
        ELSE IF k = "impact_scope" THEN r.scope
        ELSE it[k]]

\* the exclusive comparison
keep_if_above(kept, it, r, threshold) ==
    IF r.score > threshold THEN Append(kept, annotate(it, r)) ELSE kept

\* if sc >= threshold: kept.append(it)
keep_if(kept, it, r, threshold) ==
    IF r.score >= threshold THEN Append(kept, annotate(it, r)) ELSE kept

RECURSIVE filter_loop(_, _, _, _, _, _, _, _)
filter_loop(items, ticker, aliases, competitors, sector_tags, macro_terms, threshold, kept) ==
    IF items = <<>> THEN kept
    ELSE filter_loop(Tail(items), ticker, aliases, competitors, sector_tags, macro_terms, threshold,
                     keep_if(kept, Head(items),
                             compute_relevance(Head(items), ticker, aliases, competitors,
                                               sector_tags, macro_terms),
                             threshold))

filter_company_relevant(company_items, macro_items, ticker, aliases, competitors, sector_tags, macro_terms, threshold) ==
    filter_loop(company_items \o macro_items, ticker, aliases, competitors, sector_tags,
                macro_terms, threshold, <<>>)

\* the instants of the ISO timestamps of the sample items; any other text
\* makes datetime.fromisoformat raise
IsoInstant == [ts \in {"2024-01-01", "2024-01-02", "2024-01-03"} |->
                 CASE ts = "2024-01-01" -> 1 [] ts = "2024-01-02" -> 2 [] ts = "2024-01-03" -> 3]

parsable(ts) == Len(ts) = 1 /\ ts[1] \in DOMAIN IsoInstant

\* _sort_kept._key: for a timestamp that does not parse, d = datetime.min and
\* d.timestamp() raises ValueError (year 0 is out of range)
sort_key_raises(it) == ~parsable(or_(get(it, "published_at"), <<>>))

sort_raises(items) == \E k \in 1..Len(items) : sort_key_raises(items[k])

\* (-sc, -d.timestamp()) of a is strictly below that of b
key_less(a, b) ==
    LET sa == get_default(a, "relevance_score", 0)
        sb == get_default(b, "relevance_score", 0)
        ta == IsoInstant[a.published_at[1]]
        tb == IsoInstant[b.published_at[1]]
    IN  sa > sb \/ (sa = sb /\ ta > tb)

\* sorted(): stable insertion of each item after the last one not above it
RECURSIVE insert_sorted(_, _)
insert_sorted(sorted, it) ==
    IF sorted = <<>> THEN <<it>>
    ELSE IF key_less(it, Head(sorted)) THEN <<it>> \o sorted
    ELSE <<Head(sorted)>> \o insert_sorted(Tail(sorted), it)

RECURSIVE sort_loop(_, _)
sort_loop(items, sorted) ==
    IF items = <<>> THEN sorted
    ELSE sort_loop(Tail(items), insert_sorted(sorted, Head(items)))

_sort_kept(items) == sort_loop(items, <<>>)

\* items[:n], n of either sign
slice_items(items, n) ==
    IF n >= 0
    THEN SubSeq(items, 1, IF Len(items) < n THEN Len(items) ELSE n)
    ELSE SubSeq(items, 1, IF Len(items) + n < 0 THEN 0 ELSE Len(items) + n)

\* the cut made one item late
_limit_one_late(items, n) == IF Len(items) > n THEN slice_items(items, n + 1) ELSE items

\* items[:n] if len(items) > n else items
_limit(items, n) == IF Len(items) > n THEN slice_items(items, n) ELSE items

\* snippet[:500]
SNIPPET_LEN == 500

_compact(items) ==
    [k \in 1..Len(items) |->
        [title |-> or_(get(items[k], "title"), <<>>),
         published_at |-> _iso(or_(or_(or_(get(items[k], "published_at"), get(items[k], "date")),
                                       get(items[k], "time")), <<>>)),
         source |-> or_(or_(or_(get(items[k], "source"), get(items[k], "publisher")),
                            get(items[k], "domain")), <<>>),
         url |-> or_(or_(get(items[k], "url"), get(items[k], "link")), <<>>),
         snippet |-> slice_to(or_(or_(or_(get(items[k], "snippet"), get(items[k], "summary")),
                                      get(items[k], "description")), <<>>), SNIPPET_LEN)]]

\* str.split(): the white-space-delimited tokens
RECURSIVE split_loop(_, _, _)
split_loop(str, cur, acc) ==
    IF str = <<>> THEN (IF cur = <<>> THEN acc ELSE Append(acc, cur))
    ELSE IF Head(str) = " "
         THEN split_loop(Tail(str), <<>>, IF cur = <<>> THEN acc ELSE Append(acc, cur))
         ELSE split_loop(Tail(str), Append(cur, Head(str)), acc)

split(str) == split_loop(str, <<>>, <<>>)

\* " ".join(tokens)
RECURSIVE join(_)
join(tokens) ==
    IF tokens = <<>> THEN <<>>
    ELSE IF Len(tokens) = 1 THEN tokens[1]
    ELSE tokens[1] \o <<" ">> \o join(Tail(tokens))

\* title.split()[:7]
TOPIC_TOKENS == 7

_estimate_unique_topics(items) ==
    Cardinality({md5(join(slice_items(split(lower(strip_chars(or_(get(items[k], "title"), <<>>)))),
                                      TOPIC_TOKENS)))
                 : k \in {j \in 1..Len(items) :
                             strip_chars(or_(get(items[j], "title"), <<>>)) # <<>>}})

\* what one invocation of the news node did, beside Returned/Raised
NewsRun(run, kept, evidence) ==
    [raised |-> run.raised, update |-> run.update, collector_calls |-> run.collector_calls,
     placeholders |-> run.placeholders, model_calls |-> run.model_calls,
     invoked |-> run.invoked, path |-> run.path, kept |-> kept, evidence |-> evidence]

NewsFetch == <<"get_news", "get_global_news">>

\* "# Return with proper message flow": the update, unless the fallback
\* record built in the except branch fails its validation
news_return(e, fallback, relevant_items, compact_kept) ==
    IF e.tier = "fallback" /\ ~NewsAnalysisOutput(fallback)
    THEN NewsRun(Raised(NewsFetch, e.invoked, "fallback"), relevant_items, compact_kept)
    ELSE NewsRun(Returned([messages |-> <<HumanMessage("news_analyst"), AIMessage("news_analyst")>>,
                           news_analysis |-> json_dumps(e.json)],
                          NewsFetch, {}, e.invoked, e.tier), relevant_items, compact_kept)

\* "Get structured response": the try / except around the model call
news_extract(structured, out, fallback, relevant_items, compact_kept) ==
    news_return(ExtractorTiers("news_analyst", structured, out, fallback), fallback,
                relevant_items, compact_kept)

\* srcs = sorted({(x.get("source") or "").strip() for x in compact_kept if x.get("source")})
sources_of(compact_kept) ==
    {strip_chars(compact_kept[k].source) :
        k \in {j \in 1..Len(compact_kept) : Truthy(compact_kept[j].source)}}

\* srcs, unique_topics, then the model call
news_stats(st, structured, out, raw_total, relevant_items, compact_kept) ==
    news_extract(structured, out,
                 NewsFallback(st.lookback_days, Len(compact_kept), sources_of(compact_kept),
                              _estimate_unique_topics(compact_kept), raw_total),
                 relevant_items, compact_kept)

\* "Preserve relevance metadata in compact view"
preserve_metadata(compact, relevant_kept) ==
    [k \in 1..Len(compact) |->
        [f \in DOMAIN compact[k] \cup {"impact_scope", "relevance_score"} |->
            IF f = "impact_scope" THEN get_default(relevant_kept[k], "impact_scope", "macro")
            ELSE IF f = "relevance_score" THEN get_default(relevant_kept[k], "relevance_score", 0)
            ELSE compact[k][f]]]

news_compact(st, structured, out, raw_total, relevant_items, relevant_kept) ==
    news_stats(st, structured, out, raw_total, relevant_items,
               preserve_metadata(_compact(relevant_kept), relevant_kept))

\* "Hard fallback if nothing kept", else "Sort, limit, compact"
news_kept(st, structured, out, raw_total, relevant_items) ==
    IF relevant_items = <<>>
    THEN IF NewsAnalysisOutput(NewsNothingKept(st.lookback_days, raw_total))
         THEN NewsRun(Returned([messages |-> <<AIMessage("news_analyst")>>,
                                news_analysis |-> json_dumps(NewsNothingKept(st.lookback_days, raw_total))],
                               NewsFetch, {}, <<>>, "short_circuit"), <<>>, <<>>)
         ELSE NewsRun(Raised(NewsFetch, <<>>, "short_circuit"), <<>>, <<>>)
    ELSE IF sort_raises(relevant_items)
    THEN NewsRun(Raised(NewsFetch, <<>>, "sort"), relevant_items, <<>>)
    ELSE news_compact(st, structured, out, raw_total, relevant_items,
                      _limit(_sort_kept(relevant_items), st.max_kept_articles))

\* "# Dedupe" and "# Filter for company relevance"
news_select(st, structured, out, raw_company, raw_macro) ==
    IF dedupe_raises(raw_company) \/ dedupe_raises(raw_macro)
    THEN NewsRun(Raised(NewsFetch, <<>>, "dedupe"), <<>>, <<>>)
    ELSE news_kept(st, structured, out, Len(raw_company) + Len(raw_macro),
                   filter_company_relevant(_normalize_dict_list(_dedupe_articles(raw_company)),
                                           _normalize_dict_list(_dedupe_articles(raw_macro)),
                                           strip_chars(upper(get_default(st, "ticker", <<>>))),
                                           st.aliases, st.competitors,
                                           st.sector_tags, st.macro_terms,
                                           st.relevance_threshold))

\* news_analyst_node.  company_feed / macro_feed: what the two tools return
\* when they do not raise (c as for the other nodes); a tool that raised
\* leaves its stream empty.
news_analyst_node(st, c, structured, out, company_feed, macro_feed) ==
    news_select(st, structured, out,
                IF c["get_news"] THEN <<>> ELSE company_feed,
                IF c["get_global_news"] THEN <<>> ELSE macro_feed)

(***************************************************************************)
(* TradingAgentsGraph                                                      *)
(***************************************************************************)
Nodes == {"market_analyst", "fundamentals_analyst", "bull_debater", "bear_debater", "supervisor"}

\* _build_graph: set_entry_point and add_edge
EntryPoint == "market_analyst"

\* the edges with the two debaters wired in the opposite order
EdgesDebatersSwapped ==
    { <<"market_analyst", "fundamentals_analyst">>,
      <<"fundamentals_analyst", "bear_debater">>,
      <<"bear_debater", "bull_debater">>,
      <<"bull_debater", "supervisor">>,
      <<"supervisor", "END">> }

\* the edges with the synthesis node wired back to the entry point
EdgesLoopBack ==
    { <<"market_analyst", "fundamentals_analyst">>,
      <<"fundamentals_analyst", "bull_debater">>,
      <<"bull_debater", "bear_debater">>,
      <<"bear_debater", "supervisor">>,
      <<"supervisor", "market_analyst">> }

Edges ==
    { <<"market_analyst", "fundamentals_analyst">>,
      <<"fundamentals_analyst", "bull_debater">>,
      <<"bull_debater", "bear_debater">>,
      <<"bear_debater", "supervisor">>,
      <<"supervisor", "END">> }

Successors(n) == {e[2] : e \in {x \in Edges : x[1] = n}} \ {"END"}

\* the collector calls of a node and the transport it was built with
CallsOf(n) ==
    CASE n = "market_analyst" -> {MarketFetch[i] : i \in 1..Len(MarketFetch)}
      [] n = "fundamentals_analyst" ->
            UNION {{FundamentalFetch[i].calls[j] : j \in 1..Len(FundamentalFetch[i].calls)}
                   : i \in 1..Len(FundamentalFetch)}
      [] OTHER -> {}

LlmOf(n) == IF n = "supervisor" THEN "supervisor_llm" ELSE "llm"

\* state.get(key, "No ... available"): the text a node embeds for a missing key
Placeholder(key) == <<[placeholder |-> key]>>

\* the records a node reads from the state it is handed
ReadKeys(n) ==
    CASE n \in {"bull_debater", "bear_debater"} -> {"market_analysis", "fundamental_analysis"}
      [] n = "supervisor" ->
            {"market_analysis", "fundamental_analysis", "bull_argument", "bear_argument"}
      [] OTHER -> {}

ReadsOf(n, st) == [k \in ReadKeys(n) |-> get_default(st, k, Placeholder(k))]

RunNodeFn(n, st, c, structured, out) ==
    CASE n = "market_analyst" -> market_analyst_node(st, c, structured, out)
      [] n = "fundamentals_analyst" -> fundamentals_analyst_node(st, c, structured, out)
      [] n = "bull_debater" -> bull_debater_node(st, c, structured, out)
      [] n = "bear_debater" -> bear_debater_node(st, c, structured, out)
      [] n = "supervisor" -> supervisor_node(st, c, structured, out)

\* only the latest node's records are handed on, with the identifier and date
MergeLatestOnly(st, update) ==
    [k \in DOMAIN st |->
        IF k \in DOMAIN update THEN update[k]
        ELSE IF k \in {"market_analysis", "fundamental_analysis", "bull_argument",
                       "bear_argument", "supervisor_decision"} THEN <<>>
        ELSE st[k]]

\* the graph merges a node's partial update into the state, key by key
Merge(st, update) ==
    [k \in DOMAIN st |-> IF k \in DOMAIN update THEN update[k] ELSE st[k]]

Tickers == {"AAPL", "ZZZZ"}
Dates == {"2024-01-15"}

NoState == <<>>
NoRun == [node |-> "none", c |-> <<>>, llm |-> "none", read |-> <<>>, raised |-> FALSE,
          update |-> NoUpdate, collector_calls |-> <<>>, placeholders |-> {}, model_calls |-> 0,
          invoked |-> <<>>, path |-> "none"]
NoResult == <<>>

\* analyze: "Create initial state"
initial_state(ticker, date) ==
    [ticker |-> ticker, date |-> date, messages |-> <<>>,
     market_analysis |-> <<>>, fundamental_analysis |-> <<>>,
     bull_argument |-> <<>>, bear_argument |-> <<>>,
     decision |-> "neutral", rationale |-> "", confidence |-> 0,
     supervisor_decision |-> <<>>]

Init ==
    /\ pc = "idle"
    /\ debug \in BOOLEAN
    /\ llm_caps \in [{"llm", "supervisor_llm"} -> BOOLEAN]
    /\ state = NoState
    /\ frontier = {}
    /\ executed = <<>>
    /\ last = NoRun
    /\ result = NoResult
    /\ fn_in = <<>>
    /\ fn_out = <<>>

\* analyze(ticker, date) up to the start of graph execution
analyze_start ==
    /\ pc = "idle"
    /\ \E ticker \in Tickers, date \in Dates :
          state' = initial_state(ticker, date)
    /\ frontier' = {EntryPoint}
    /\ pc' = "running"
    /\ UNCHANGED <<debug, llm_caps, executed, last, result, fn_in, fn_out>>

\* one node of the graph runs to completion and its update is merged
node_returns ==
    /\ pc = "running"
    /\ \E n \in frontier :
       \E c \in [CallsOf(n) -> BOOLEAN] :
       \E out \in LLMOutcomes(n, llm_caps[LlmOf(n)]) :
          LET r == RunNodeFn(n, state, c, llm_caps[LlmOf(n)], out)
          IN  /\ ~r.raised
              /\ state' = Merge(state, r.update)
              /\ frontier' = (frontier \ {n}) \cup Successors(n)
              /\ executed' = Append(executed, n)
              /\ last' = [node |-> n, c |-> c, llm |-> out.kind, read |-> ReadsOf(n, state)] @@ r
    /\ UNCHANGED <<pc, debug, llm_caps, result, fn_in, fn_out>>

\* a node raises: the exception leaves invoke/stream and analyze
node_raises ==
    /\ pc = "running"
    /\ \E n \in frontier :
       \E c \in [CallsOf(n) -> BOOLEAN] :
       \E out \in LLMOutcomes(n, llm_caps[LlmOf(n)]) :
          LET r == RunNodeFn(n, state, c, llm_caps[LlmOf(n)], out)
          IN  /\ r.raised
              /\ last' = [node |-> n, c |-> c, llm |-> out.kind, read |-> ReadsOf(n, state)] @@ r
    /\ pc' = "aborted"
    /\ UNCHANGED <<debug, llm_caps, state, frontier, executed, result, fn_in, fn_out>>

\* analyze returns final_state: invoke's state, or in debug mode the last
\* value streamed, output[node_name]
analyze_return ==
    /\ pc = "running"
    /\ frontier = {}
    /\ result' = IF debug THEN last.update ELSE state
    /\ pc' = "returned"
    /\ UNCHANGED <<debug, llm_caps, state, frontier, executed, last, fn_in, fn_out>>

Next == analyze_start \/ node_returns \/ node_raises \/ analyze_return

Spec == Init /\ [][Next]_vars

\* every collector call and every model call eventually returns or raises, so
\* a scheduled node eventually finishes, and invoke/stream eventually hands
\* back to analyze
\* the step by which the scheduled node finishes, returning (node_returns) or
\* raising (node_raises), read off the two variables that tell them apart
StageFinishes ==
    /\ pc = "running"
    /\ \E n \in frontier :
          \/ executed' = Append(executed, n) /\ pc' = "running"
          \/ executed' = executed /\ pc' = "aborted"

\* the step by which invoke/stream hands back to analyze (analyze_return)
AnalyzeFinishes == pc = "running" /\ frontier = {} /\ pc' = "returned"

Fairness == WF_<<pc, executed>>(StageFinishes) /\ WF_pc(AnalyzeFinishes)

SpecLive == Spec /\ Fairness

(***************************************************************************)
(* The news Stage on its own: a caller builds a state and invokes the node *)
(***************************************************************************)
MaxArticles == 2
MaxDedupe == 3

SeqsUpTo(S, n) == UNION {[1..k -> S] : k \in 0..n}

\* raw feed items as the tools may hand them over
NewsSampleItems ==
    { [title |-> <<"A", "B", " ", "c", "d", " ", "u", "p", " ", "1">>, url |-> <<"u", "1">>, published_at |-> <<"2024-01-02">>,
       source |-> <<"s", "1">>, summary |-> <<"g", "h">>],
      [title |-> <<"g", "h", " ", "i", "j", " ", "n", "e", "w", "s">>, url |-> <<"u", "2">>, published_at |-> <<"2024-01-03">>,
       source |-> <<"s", "2">>],
      [title |-> <<"A", "B", " ", "e", "f">>, url |-> <<"u", "3">>, date |-> <<"2024-01-01">>,
       publisher |-> <<"s", "1">>],
      [title |-> <<"A", "B", " ", "c", "d", " ", "g", "h">>, url |-> <<"U", "1", " ">>, time_published |-> <<"20240102T000000">>,
       source |-> <<"s", "2">>] }

Lookbacks == {0, 7, 31}
Thresholds == {20, 60}
KeptCaps == {0, 1, 80}

\* the state a caller hands to the news node (vocabulary passed as overrides)
NewsStates ==
    {[ticker |-> <<"A", "B">>, date |-> "2024-01-15", lookback_days |-> lb,
      aliases |-> <<<<"c", "d">>>>, competitors |-> <<<<"e", "f">>>>,
      sector_tags |-> <<<<"g", "h">>>>, macro_terms |-> <<<<"i", "j">>>>,
      relevance_threshold |-> th, max_kept_articles |-> cap]
     : lb \in Lookbacks, th \in Thresholds, cap \in KeptCaps}

NoInput == <<>>

InitNews ==
    /\ pc = "news_idle"
    /\ debug = FALSE
    /\ llm_caps \in {f \in [{"llm", "supervisor_llm"} -> BOOLEAN] : ~f["supervisor_llm"]}
    /\ state \in NewsStates
    /\ frontier = {}
    /\ executed = <<>>
    /\ last = NoRun
    /\ result = NoResult
    /\ fn_in = NoInput
    /\ fn_out = <<>>

NewsFeeds ==
    {f \in SeqsUpTo(NewsSampleItems, MaxArticles) \X SeqsUpTo(NewsSampleItems, MaxArticles) :
        Len(f[1]) + Len(f[2]) <= MaxArticles}

news_returns ==
    /\ pc = "news_idle"
    /\ \E feeds \in NewsFeeds :
       \E c \in [{"get_news", "get_global_news"} -> BOOLEAN] :
       \E out \in LLMOutcomes("news_analyst", llm_caps["llm"]) :
          LET r == news_analyst_node(state, c, llm_caps["llm"], out, feeds[1], feeds[2])
          IN  /\ ~r.raised
              /\ last' = [node |-> "news_analyst", c |-> c, llm |-> out.kind, read |-> <<>>] @@ r
              /\ fn_in' = [company_feed |-> feeds[1], macro_feed |-> feeds[2], c |-> c]
    /\ pc' = "news_done"
    /\ UNCHANGED <<debug, llm_caps, state, frontier, executed, result, fn_out>>

news_raises ==
    /\ pc = "news_idle"
    /\ \E feeds \in NewsFeeds :
       \E c \in [{"get_news", "get_global_news"} -> BOOLEAN] :
       \E out \in LLMOutcomes("news_analyst", llm_caps["llm"]) :
          LET r == news_analyst_node(state, c, llm_caps["llm"], out, feeds[1], feeds[2])
          IN  /\ r.raised
              /\ last' = [node |-> "news_analyst", c |-> c, llm |-> out.kind, read |-> <<>>] @@ r
              /\ fn_in' = [company_feed |-> feeds[1], macro_feed |-> feeds[2], c |-> c]
    /\ pc' = "news_raised"
    /\ UNCHANGED <<debug, llm_caps, state, frontier, executed, result, fn_out>>

NextNews == news_returns \/ news_raises

SpecNews == InitNews /\ [][NextNews]_vars

(***************************************************************************)
(* _dedupe_articles on its own                                             *)
(***************************************************************************)
LongTitleA == [k \in 1..65 |-> IF k = 65 THEN "a" ELSE "x"]
LongTitleB == [k \in 1..65 |-> IF k = 65 THEN "b" ELSE "x"]

DedupeSampleItems ==
    { [title |-> <<"t", "1">>, url |-> <<"u", "1">>],
      [title |-> <<"t", "2">>, url |-> <<"U", "1", " ">>],
      [title |-> <<"t", "1">>, link |-> <<"u", "2">>],
      [title |-> LongTitleA],
      [title |-> LongTitleB],
      [title |-> <<"u", "1">>, url |-> <<>>],
      [title |-> <<"t", "1">>, url |-> None_] }

InitDedupe ==
    /\ pc = "dedupe_ready"
    /\ debug = FALSE
    /\ llm_caps = [k \in {"llm", "supervisor_llm"} |-> FALSE]
    /\ state = NoState
    /\ frontier = {}
    /\ executed = <<>>
    /\ last = NoRun
    /\ result = NoResult
    /\ fn_in \in SeqsUpTo(DedupeSampleItems, MaxDedupe)
    /\ fn_out = <<>>

dedupe_call ==
    /\ pc = "dedupe_ready"
    /\ ~dedupe_raises(fn_in)
    /\ fn_out' = _dedupe_articles(fn_in)
    /\ pc' = "dedupe_done"
    /\ UNCHANGED <<debug, llm_caps, state, frontier, executed, last, result, fn_in>>

NextDedupe == dedupe_call

SpecDedupe == InitDedupe /\ [][NextDedupe]_vars

(***************************************************************************)
(* _sort_kept on its own                                                   *)
(***************************************************************************)
MaxSort == 3

\* everything of the graph run, at rest while one function is exercised
IdleGraph ==
    /\ debug = FALSE
    /\ llm_caps = [k \in {"llm", "supervisor_llm"} |-> FALSE]
    /\ state = NoState
    /\ frontier = {}
    /\ executed = <<>>
    /\ last = NoRun
    /\ result = NoResult

\* kept items as filter_company_relevant annotates them; the last two carry a
\* timestamp datetime.fromisoformat rejects, or none
SortSampleItems ==
    { [title |-> <<"a">>, relevance_score |-> 100, published_at |-> <<"2024-01-01">>],
      [title |-> <<"b">>, relevance_score |-> 100, published_at |-> <<"2024-01-02">>],
      [title |-> <<"c">>, relevance_score |-> 32, published_at |-> <<"2024-01-01">>],
      [title |-> <<"d">>, relevance_score |-> 32, published_at |-> <<"2024-01-02">>],
      [title |-> <<"e">>, relevance_score |-> 100, published_at |-> <<"20240102T000000">>],
      [title |-> <<"f">>, relevance_score |-> 32, published_at |-> <<>>] }

InitSort ==
    /\ pc = "sort_ready"
    /\ IdleGraph
    /\ fn_in \in SeqsUpTo(SortSampleItems, MaxSort)
    /\ fn_out = [raised |-> FALSE, items |-> <<>>]

sort_call ==
    /\ pc = "sort_ready"
    /\ ~sort_raises(fn_in)
    /\ fn_out' = [raised |-> FALSE, items |-> _sort_kept(fn_in)]
    /\ pc' = "sort_done"
    /\ UNCHANGED <<debug, llm_caps, state, frontier, executed, last, result, fn_in>>

sort_call_raises ==
    /\ pc = "sort_ready"
    /\ sort_raises(fn_in)
    /\ fn_out' = [raised |-> TRUE, items |-> <<>>]
    /\ pc' = "sort_raised"
    /\ UNCHANGED <<debug, llm_caps, state, frontier, executed, last, result, fn_in>>

NextSort == sort_call \/ sort_call_raises

SpecSort == InitSort /\ [][NextSort]_vars

(***************************************************************************)
(* compute_relevance on its own: an item, and the item with one more hit   *)
(***************************************************************************)
MaxWords == 2

\* the ticker, one term of each vocabulary, and a word of none
ScoreWords == { <<"A", "B">>, <<"c", "d">>, <<"e", "f">>, <<"g", "h">>, <<"i", "j">>,
                <<"z", "z">> }

\* the terms whose occurrence is an alias, competitor, sector-tag or macro-term hit
HitTerms == { <<"c", "d">>, <<"e", "f">>, <<"g", "h">>, <<"i", "j">> }

ScoreTicker == <<"A", "B">>
ScoreAliases == << <<"c", "d">> >>
ScoreCompetitors == << <<"e", "f">> >>
ScoreSectorTags == << <<"g", "h">> >>
ScoreMacroTerms == << <<"i", "j">> >>

\* feed items: a title of up to MaxWords words, with or without a snippet
ScoreSampleItems ==
    { [title |-> join(ws)] : ws \in SeqsUpTo(ScoreWords, MaxWords) }
    \cup { [title |-> join(ws), snippet |-> sn] :
              ws \in SeqsUpTo(ScoreWords, MaxWords), sn \in {<<>>, <<"G", "h">>} }

\* the item with the term added at the end of its title or of its snippet
with_hit(item, field, term) ==
    [k \in DOMAIN item \cup {field} |->
        IF k = field THEN or_(get(item, field), <<>>) \o <<" ">> \o term ELSE item[k]]

score_of(item) ==
    compute_relevance(item, ScoreTicker, ScoreAliases, ScoreCompetitors, ScoreSectorTags,
                      ScoreMacroTerms)

NoScore == [score |-> 0, scope |-> "none"]

InitScore ==
    /\ pc = "score_ready"
    /\ IdleGraph
    /\ fn_in \in [item : ScoreSampleItems, field : {"title", "snippet"}, term : HitTerms]
    /\ fn_out = [before |-> NoScore, after |-> NoScore]

score_call ==
    /\ pc = "score_ready"
    /\ fn_out' = [before |-> score_of(fn_in.item),
                  after |-> score_of(with_hit(fn_in.item, fn_in.field, fn_in.term))]
    /\ pc' = "score_done"
    /\ UNCHANGED <<debug, llm_caps, state, frontier, executed, last, result, fn_in>>

NextScore == score_call

SpecScore == InitScore /\ [][NextScore]_vars

(***************************************************************************)
(* filter_company_relevant on its own                                      *)
(***************************************************************************)
MaxFilter == 2

\* items scoring 1.0, 0.32, 0.72 and 0.0 against the Score* vocabularies
FilterSampleItems ==
    { [title |-> <<"A", "B", " ", "c", "d", " ", "u", "p", " ", "1">>],
      [title |-> <<"g", "h", " ", "i", "j", " ", "n", "e", "w", "s">>],
      [title |-> <<"A", "B", " ", "e", "f">>],
      [title |-> <<"z", "z">>, snippet |-> <<"n", "o", "n", "e">>] }

\* thresholds a caller may supply, in hundredths
FilterThresholds == {0, 32, 33, 60, 100}

InitFilter ==
    /\ pc = "filter_ready"
    /\ IdleGraph
    /\ fn_in \in [company_items : SeqsUpTo(FilterSampleItems, MaxFilter),
                  macro_items : SeqsUpTo(FilterSampleItems, MaxFilter),
                  threshold : FilterThresholds]
    /\ fn_out = <<>>

filter_call ==
    /\ pc = "filter_ready"
    /\ fn_out' = filter_company_relevant(fn_in.company_items, fn_in.macro_items, ScoreTicker,
                                         ScoreAliases, ScoreCompetitors, ScoreSectorTags,
                                         ScoreMacroTerms, fn_in.threshold)
    /\ pc' = "filter_done"
    /\ UNCHANGED <<debug, llm_caps, state, frontier, executed, last, result, fn_in>>

NextFilter == filter_call

SpecFilter == InitFilter /\ [][NextFilter]_vars

(***************************************************************************)
(* The raw-text path of the Extractor on its own: one schema-valid content *)
(* answered bare and answered inside one pair of code fences               *)
(***************************************************************************)
ExtractNodes == Nodes \cup {"news_analyst"}

\* the static fallback of a node's except branch
FallbackOf(node) ==
    CASE node = "market_analyst" -> MarketFallback
      [] node = "fundamentals_analyst" -> FundamentalFallback
      [] node = "bull_debater" -> BullFallback
      [] node = "bear_debater" -> BearFallback
      [] node = "supervisor" -> SupervisorFallback
      [] node = "news_analyst" -> NewsFallback(7, 0, {}, 0, 0)

LanguageTags == {JsonTag, OtherTag}

\* optional white space
Blank(b) == IF b THEN <<Ws>> ELSE <<>>

\* the content with no fences, and inside one pair of fences with a tag
bare_text(in) == Blank(in.lead) \o <<Body(in.content)>> \o Blank(in.trail)

fenced_text(in) ==
    Blank(in.lead) \o <<Fence, in.tag, Ws, Body(in.content)>> \o Blank(in.inner)
        \o <<Fence>> \o Blank(in.trail)

ExtractInputs ==
    {in \in [node : ExtractNodes, content : UNION {DictsOf(n) : n \in ExtractNodes},
             tag : LanguageTags, lead : BOOLEAN, inner : BOOLEAN, trail : BOOLEAN] :
        in.content \in DictsOf(in.node) /\ Validates(in.node, in.content)}

NoExtract == [tier |-> "none", json |-> <<>>, invoked |-> <<>>]

InitExtract ==
    /\ pc = "extract_ready"
    /\ IdleGraph
    /\ fn_in \in ExtractInputs
    /\ fn_out = [bare |-> NoExtract, fenced |-> NoExtract]

extract_call ==
    /\ pc = "extract_ready"
    /\ fn_out' = [bare |-> ExtractorTiers(fn_in.node, FALSE, LLMText(bare_text(fn_in)),
                                          FallbackOf(fn_in.node)),
                  fenced |-> ExtractorTiers(fn_in.node, FALSE, LLMText(fenced_text(fn_in)),
                                            FallbackOf(fn_in.node))]
    /\ pc' = "extract_done"
    /\ UNCHANGED <<debug, llm_caps, state, frontier, executed, last, result, fn_in>>

NextExtract == extract_call

SpecExtract == InitExtract /\ [][NextExtract]_vars

(***************************************************************************)
(* A debate or synthesis node handed a WorkItem in which upstream records  *)
(* may be absent: as analyze initialises it, or built by another caller    *)
(***************************************************************************)
ReadingNodes == {"bull_debater", "bear_debater", "supervisor"}

UpstreamKeys == {"market_analysis", "fundamental_analysis", "bull_argument", "bear_argument"}

\* an upstream record produced by its Stage
ProducedRecord(k) ==
    CASE k = "market_analysis" -> json_dumps(MarketFallback)
      [] k = "fundamental_analysis" -> json_dumps(FundamentalFallback)
      [] k = "bull_argument" -> json_dumps(BullFallback)
      [] k = "bear_argument" -> json_dumps(BearFallback)

\* per upstream key: its record, the empty string analyze starts it with, or
\* no key at all
PartialWorkItems ==
    {[k \in {"ticker", "date", "messages"} \cup {u \in UpstreamKeys : fill[u] # "missing"} |->
         IF k \in UpstreamKeys
         THEN (IF fill[k] = "produced" THEN ProducedRecord(k) ELSE initial_state(t, "2024-01-15")[k])
         ELSE initial_state(t, "2024-01-15")[k]]
     : fill \in [UpstreamKeys -> {"produced", "initial", "missing"}], t \in Tickers}

NoStageCall == [read |-> <<>>, raised |-> FALSE, update |-> NoUpdate]

InitStage ==
    /\ pc = "stage_ready"
    /\ IdleGraph
    /\ fn_in \in [node : ReadingNodes, st : PartialWorkItems]
    /\ fn_out = NoStageCall

\* the node runs on the WorkItem it is handed
stage_call ==
    /\ pc = "stage_ready"
    /\ \E out \in LLMOutcomes(fn_in.node, FALSE) :
          LET r == RunNodeFn(fn_in.node, fn_in.st, <<>>, FALSE, out)
          IN  fn_out' = [read |-> ReadsOf(fn_in.node, fn_in.st), raised |-> r.raised,
                         update |-> r.update]
    /\ pc' = "stage_done"
    /\ UNCHANGED <<debug, llm_caps, state, frontier, executed, last, result, fn_in>>

NextStage == stage_call

SpecStage == InitStage /\ [][NextStage]_vars

(***************************************************************************)
(* The fence-stripping step on its own                                     *)
(***************************************************************************)
MaxTokens == 4

\* the pieces a response text is made of
FenceTokens == {Fence, JsonTag, OtherTag, Ws, Body(CHOOSE x \in MarketDicts : Validates("market_analyst", x))}

InitFence ==
    /\ pc = "fence_ready"
    /\ IdleGraph
    /\ fn_in \in SeqsUpTo(FenceTokens, MaxTokens)
    /\ fn_out = <<>>

fence_call ==
    /\ pc = "fence_ready"
    /\ fn_out' = StripFences(fn_in)
    /\ pc' = "fence_done"
    /\ UNCHANGED <<debug, llm_caps, state, frontier, executed, last, result, fn_in>>

NextFence == fence_call

SpecFence == InitFence /\ [][NextFence]_vars

(***************************************************************************)
(* A record serialized into the WorkItem and parsed back                   *)
(***************************************************************************)
MaxIndicators == 2

\* the Python values a field of a record or of a parsed response holds
PyStr(s) == [k |-> "str", s |-> s]
PyInt(n) == [k |-> "int", n |-> n]
PyFloat(h) == [k |-> "float", h |-> h]     \* a finite float, in hundredths
PyInf == [k |-> "inf"]                      \* float("inf")
PyNaN == [k |-> "nan"]                      \* float("nan")
PyNone == [k |-> "None"]
PyList(items) == [k |-> "list", items |-> items]

\* a == b of Python: a NaN is unequal to every float, itself included
RECURSIVE PyEq(_, _)
PyEq(a, b) ==
    IF a.k = "list" /\ b.k = "list"
    THEN /\ Len(a.items) = Len(b.items)
         /\ \A i \in 1..Len(a.items) : PyEq(a.items[i], b.items[i])
    ELSE a = b /\ a.k # "nan"

\* a float field without bounds: pydantic turns an int into a float and takes
\* every float, inf and nan included
float_field(v) ==
    CASE v.k = "int" -> [ok |-> TRUE, v |-> PyFloat(v.n * 100)]
      [] v.k \in {"float", "inf", "nan"} -> [ok |-> TRUE, v |-> v]
      [] OTHER -> [ok |-> FALSE, v |-> PyNone]

\* Field(ge=0.0, le=1.0)
unit_float_field(v) ==
    LET f == float_field(v)
    IN  IF f.ok /\ f.v.k = "float" /\ f.v.h >= 0 /\ f.v.h <= 100
        THEN f
        ELSE [ok |-> FALSE, v |-> PyNone]

str_field(v) == [ok |-> v.k = "str", v |-> v]

\* the "Parsing fallback" record of the market node
MarketFallbackRecord == [analysis_summary |-> PyStr("formatting issues"), selected_indicators |-> PyList(<<>>), confidence_score |-> PyFloat(30)]

\* MarketAnalysisOutput(**analysis_dict).model_dump(), or the fallback record
\* when the validation raises
MarketRecordOf(analysis_dict) ==
    LET s == str_field(analysis_dict.analysis_summary)
        c == unit_float_field(analysis_dict.confidence_score)
        raw == analysis_dict.selected_indicators
        vs == [i \in 1..Len(raw) |-> float_field(raw[i])]
    IN  IF s.ok /\ c.ok /\ \A i \in 1..Len(raw) : vs[i].ok
        THEN [analysis_summary |-> s.v, selected_indicators |-> PyList([i \in 1..Len(raw) |-> vs[i].v]), confidence_score |-> c.v]
        ELSE MarketFallbackRecord

\* json.dumps of one value: the literal it writes (allow_nan is left True)
RECURSIVE dumps_value(_)
dumps_value(v) ==
    CASE v.k = "str" -> [lit |-> "string", chars |-> v.s]
      [] v.k = "int" -> [lit |-> "number", digits |-> v.n, point |-> <<>>]
      [] v.k = "float" -> [lit |-> "number", digits |-> v.h \div 100, point |-> <<v.h % 100>>]
      [] v.k = "inf" -> [lit |-> "Infinity"]
      [] v.k = "nan" -> [lit |-> "NaN"]
      [] v.k = "None" -> [lit |-> "null"]
      [] v.k = "list" -> [lit |-> "array", elems |-> [i \in 1..Len(v.items) |-> dumps_value(v.items[i])]]

\* json.loads of one literal: a number without a decimal point is an int
RECURSIVE loads_value(_)
loads_value(l) ==
    CASE l.lit = "string" -> PyStr(l.chars)
      [] l.lit = "number" -> IF l.point = <<>> THEN PyInt(l.digits) ELSE PyFloat(l.digits * 100 + l.point[1])
      [] l.lit = "Infinity" -> PyInf
      [] l.lit = "NaN" -> PyNaN
      [] l.lit = "null" -> PyNone
      [] l.lit = "array" -> PyList([i \in 1..Len(l.elems) |-> loads_value(l.elems[i])])

\* formatted_analysis = json.dumps(analysis_json, indent=2)
dumps_record(analysis_json) == [f \in DOMAIN analysis_json |-> dumps_value(analysis_json[f])]

\* parse_json_safe on a string a Stage wrote
parse_json_safe(json_str) == [f \in DOMAIN json_str |-> loads_value(json_str[f])]

\* the values a model response holds in the three fields
RawSummaries == {PyStr("uptrend"), PyInt(1)}
RawIndicatorValues == {PyInt(50), PyFloat(1250), PyInf, PyNaN, PyNone}
RawConfidences == {PyFloat(30), PyInt(1), PyFloat(150), PyNaN}

NoRoundTrip == [record |-> MarketFallbackRecord, parsed |-> MarketFallbackRecord]

InitRoundTrip ==
    /\ pc = "dump_ready"
    /\ IdleGraph
    /\ fn_in \in [analysis_summary : RawSummaries, selected_indicators : SeqsUpTo(RawIndicatorValues, MaxIndicators), confidence_score : RawConfidences]
    /\ fn_out = NoRoundTrip

\* the node builds its record, writes it as a string, and the reader parses it
dump_and_parse ==
    /\ pc = "dump_ready"
    /\ LET analysis_json == MarketRecordOf(fn_in)
       IN  fn_out' = [record |-> analysis_json, parsed |-> parse_json_safe(dumps_record(analysis_json))]
    /\ pc' = "dump_done"
    /\ UNCHANGED <<debug, llm_caps, state, frontier, executed, last, result, fn_in>>

NextRoundTrip == dump_and_parse

SpecRoundTrip == InitRoundTrip /\ [][NextRoundTrip]_vars

(***************************************************************************)
(* The Selector steps in the order the news node runs them                 *)
(***************************************************************************)
MaxRaw == 2

\* a raw item with all five fields, and the same item with one field left out
\* or null
FullItem == [title |-> <<"A", "B", " ", "u", "p">>, url |-> <<"u", "1">>, source |-> <<"s", "1">>, summary |-> <<"g", "h">>, published_at |-> <<"2024-01-02">>]

Without(it, key) == [k \in DOMAIN it \ {key} |-> it[k]]

WithNull(it, key) == [k \in DOMAIN it |-> IF k = key THEN None_ ELSE it[k]]

RawSampleItems ==
    {FullItem, Without(WithNull(FullItem, "title"), "url")}
    \cup {Without(FullItem, key) : key \in DOMAIN FullItem}
    \cup {WithNull(FullItem, key) : key \in DOMAIN FullItem}

NoSelection == [raised |-> FALSE, step |-> "none", items |-> <<>>]

\* dedupe, normalize, score and filter of one raw feed
selector_relevant(raw_company) ==
    filter_company_relevant(_normalize_dict_list(_dedupe_articles(raw_company)), <<>>,
                            <<"A", "B">>, <<<<"c", "d">>>>, <<<<"e", "f">>>>,
                            <<<<"g", "h">>>>, <<<<"i", "j">>>>, 20)

\* the step at which the run of the Selector raises, "none" when it does not
selector_raise_step(raw_company) ==
    IF dedupe_raises(raw_company) THEN "dedupe"
    ELSE IF sort_raises(selector_relevant(raw_company)) THEN "sort"
    ELSE "none"

InitSelector ==
    /\ pc = "select_ready"
    /\ IdleGraph
    /\ fn_in \in SeqsUpTo(RawSampleItems, MaxRaw)
    /\ fn_out = NoSelection

selector_call ==
    /\ pc = "select_ready"
    /\ selector_raise_step(fn_in) = "none"
    /\ fn_out' = [raised |-> FALSE, step |-> "none",
                  items |-> _limit(_sort_kept(selector_relevant(fn_in)), 1)]
    /\ pc' = "select_done"
    /\ UNCHANGED <<debug, llm_caps, state, frontier, executed, last, result, fn_in>>

selector_call_raises ==
    /\ pc = "select_ready"
    /\ selector_raise_step(fn_in) # "none"
    /\ fn_out' = [raised |-> TRUE, step |-> selector_raise_step(fn_in), items |-> <<>>]
    /\ pc' = "select_raised"
    /\ UNCHANGED <<debug, llm_caps, state, frontier, executed, last, result, fn_in>>

NextSelector == selector_call \/ selector_call_raises

SpecSelector == InitSelector /\ [][NextSelector]_vars

(***************************************************************************)
(* Properties                                                              *)
(***************************************************************************)
\* the key under which a Stage writes its record
OwnKey(node) ==
    CASE node = "market_analyst" -> "market_analysis"
      [] node = "fundamentals_analyst" -> "fundamental_analysis"
      [] node = "bull_debater" -> "bull_argument"
      [] node = "bear_debater" -> "bear_argument"
      [] node = "supervisor" -> "supervisor_decision"
      [] node = "news_analyst" -> "news_analysis"

\* the record the most recent invocation wrote under its own key
LastRecord == json_loads(<<Body(last.update[OwnKey(last.node)][1])>>).value[1]

DataFetchStages == {"market_analyst", "fundamentals_analyst"}

\* the collector calls the most recent invocation issued, and their outcomes
IssuedCalls == {last.collector_calls[i] : i \in 1..Len(last.collector_calls)}
SucceededCalls == {k \in IssuedCalls : ~last.c[k]}
RaisedCalls == {k \in IssuedCalls : last.c[k]}

\* C1: in every Stage a failure inside the Extractor (the model call raising,
\* the text not parsing, the parsed value not validating) is absorbed: the
\* Stage returns and no exception leaves it.
C1_ExtractorFailureAbsorbed ==
    (last.node \in Nodes \cup {"news_analyst"} /\ last.path = "fallback") => ~last.raised

\* C2: for each of the five Stages, when the model transport raises, the
\* record the Stage returns validates against the Stage's own schema.
C2_FallbackValidates ==
    (last.node \in Nodes /\ last.model_calls = 1 /\ last.llm = "raise")
        => (~last.raised /\ Validates(last.node, LastRecord))

StageOrder ==
    <<"market_analyst", "fundamentals_analyst", "bull_debater", "bear_debater", "supervisor">>

C4_FullWorkItemOrAbort ==
    /\ pc = "returned" =>
          /\ \A i \in 1..Len(StageOrder) :
                /\ OwnKey(StageOrder[i]) \in DOMAIN result
                /\ result[OwnKey(StageOrder[i])] # <<>>
          /\ "decision" \in DOMAIN result
          /\ result.decision \in Direction4
    /\ pc = "aborted" => result = NoResult

\* C5: when every collector call of a data-fetch Stage raises, the Stage
\* returns a schema-conforming record under its own key, without calling the
\* model and without raising.
C5_TotalFailureDegrades ==
    (last.node \in DataFetchStages /\ \A k \in CallsOf(last.node) : last.c[k])
        => /\ ~last.raised
           /\ last.model_calls = 0
           /\ Validates(last.node, LastRecord)

\* C6: in a data-fetch Stage, when at least one collector call succeeded and
\* at least one raised, the Stage still calls the Extractor; it takes the
\* short circuit only when no collector call succeeded.
C6_PartialFailureStillExtracts ==
    last.node \in DataFetchStages =>
        /\ (SucceededCalls # {} /\ RaisedCalls # {}) => last.model_calls = 1
        /\ last.path = "short_circuit" => SucceededCalls = {}

\* C7: in a data-fetch Stage every collector call is issued in each run of
\* the Stage, whatever the other calls did.
C7_EveryCollectorCalled ==
    last.node \in DataFetchStages => IssuedCalls = CallsOf(last.node)

\* the two streams as the news node has them after fetching
NewsStreams ==
    (IF fn_in.c["get_news"] THEN <<>> ELSE fn_in.company_feed)
    \o (IF fn_in.c["get_global_news"] THEN <<>> ELSE fn_in.macro_feed)

NothingClears ==
    \A k \in 1..Len(NewsStreams) :
        compute_relevance(_normalize_dict_list(NewsStreams)[k],
                          strip_chars(upper(state.ticker)), state.aliases,
                          state.competitors, state.sector_tags, state.macro_terms).score
            < state.relevance_threshold

\* C8: when both streams are empty, or no item clears the threshold, the
\* news Stage does not raise, does not call the model, and returns a record
\* that reports zero articles and zero sources and whose four company-impact
\* fields are all "uncertain".
C8_NothingKeptDegrades ==
    (last.node = "news_analyst" /\ NothingClears)
        => /\ ~last.raised
           /\ last.model_calls = 0
           /\ LastRecord.coverage_stats.articles = 0
           /\ LastRecord.coverage_stats.sources = 0
           /\ LastRecord.sources = {}
           /\ LastRecord.company_impact = UncertainImpact

\* positions of the input whose key no earlier position has
FirstSeen(items) ==
    {i \in 1..Len(items) :
        \A j \in 1..(i - 1) : dedupe_hash(items[j]) # dedupe_hash(items[i])}

C10_EvidenceHasNoDuplicateKey ==
    (last.node = "news_analyst" /\ ~last.raised) =>
        \A a, b \in 1..Len(last.evidence) :
            a # b => dedupe_hash(last.evidence[a]) # dedupe_hash(last.evidence[b])

\* the publish instant of an item, 0 when its timestamp does not parse
InstantOf(it) ==
    LET ts == or_(get(it, "published_at"), <<>>)
    IN  IF parsable(ts) THEN IsoInstant[ts[1]] ELSE 0

\* a comes before b only where the ranking allows it
RankAllows(a, b) ==
    \/ a.relevance_score > b.relevance_score
    \/ /\ a.relevance_score = b.relevance_score
       /\ InstantOf(a) >= InstantOf(b)

\* C11: for every evidence set, rank returns an output that is non-increasing
\* in score, among equal scores non-increasing in parsed publish time, with no
\* item of unparsable timestamp above an equal-score item of parsable timestamp
C11_RankOrdersEveryEvidenceSet ==
    pc \in {"sort_done", "sort_raised"} =>
        /\ ~fn_out.raised
        /\ Len(fn_out.items) = Len(fn_in)
        /\ \A i \in 1..Len(fn_out.items) : \A j \in 1..Len(fn_out.items) :
              i < j => RankAllows(fn_out.items[i], fn_out.items[j])

\* C12: with the vocabularies fixed, adding one more alias, competitor,
\* sector-tag or macro-term hit to an item's text never decreases its score,
\* and every returned score lies in [0,1] (0..100 hundredths)
C12_ScoreMonotoneAndBounded ==
    pc = "score_done" =>
        /\ fn_out.after.score >= fn_out.before.score
        /\ fn_out.before.score \in 0..100
        /\ fn_out.after.score \in 0..100

\* an added competitor hit raises a score of 0.92 to the upper clamp
C12_AddedHitSaturates ==
    /\ pc = "score_done"
    /\ fn_in.term = <<"e", "f">>
    /\ fn_out.before.score = 92
    /\ fn_out.after.score = 100

\* the items handed to filter, in the order it visits them
FilterInput == fn_in.company_items \o fn_in.macro_items

\* the positions of the input whose score reaches the threshold
Reaching == {k \in 1..Len(FilterInput) : score_of(FilterInput[k]).score >= fn_in.threshold}

\* C13: filter keeps an item if and only if its score is greater than or
\* equal to the caller-supplied threshold: an item scoring exactly the
\* threshold is kept and no kept item scores below the threshold
C13_KeptIffScoreReachesThreshold ==
    pc = "filter_done" =>
        /\ \A k \in 1..Len(fn_out) : fn_out[k].relevance_score >= fn_in.threshold
        /\ \A k \in Reaching : \E j \in 1..Len(fn_out) : fn_out[j].title = FilterInput[k].title
        /\ \A k \in 1..Len(FilterInput) :
              k \notin Reaching => \A j \in 1..Len(fn_out) : fn_out[j].title # FilterInput[k].title
        /\ Len(fn_out) = Cardinality(Reaching)

\* an item scoring exactly the threshold is kept, one just below is dropped
C13_BoundaryItemKept ==
    /\ pc = "filter_done"
    /\ fn_in.threshold = 32
    /\ \E j \in 1..Len(fn_out) : fn_out[j].relevance_score = 32
    /\ Len(fn_out) < Len(FilterInput)

\* the lowered title-and-body text of an item
TextOf(item) == lower(or_(get(item, "title"), <<>>)) \o <<" ">> \o lower(or_(get(item, "snippet"), <<>>))

\* the scope the priority rule gives an item: the identifier or an alias in
\* the text, else a sector tag, else macro
ScopeByPriority(item) ==
    IF contains(TextOf(item), lower(ScoreTicker))
          \/ \E k \in 1..Len(ScoreAliases) : contains(TextOf(item), lower(ScoreAliases[k]))
    THEN "company"
    ELSE IF \E k \in 1..Len(ScoreSectorTags) : contains(TextOf(item), lower(ScoreSectorTags[k]))
    THEN "sector"
    ELSE "macro"

\* C14: the scope is 'company' whenever the identifier or an alias occurs in
\* the title+body text, otherwise 'sector' when a sector tag matched, otherwise
\* 'macro' (macro term matched or nothing matched); competitor hits and the
\* numeric score play no part
C14_ScopeFollowsPriority ==
    pc = "score_done" =>
        /\ fn_out.before.scope = ScopeByPriority(fn_in.item)
        /\ fn_out.after.scope = ScopeByPriority(with_hit(fn_in.item, fn_in.field, fn_in.term))

\* an item of scope sector, scoring 0.2, becomes company by an added alias
\* while a sector tag still matches
C14_CompanyOutranksSector ==
    /\ pc = "score_done"
    /\ fn_out.before.scope = "sector"
    /\ fn_in.term = <<"c", "d">>
    /\ fn_out.after.scope = "company"
    /\ contains(TextOf(fn_in.item), <<"g", "h">>)

\* the invocation got as far as building the prompt
PromptBuilt == pc \in {"news_done", "news_raised"} /\ last.path \in {"tier1", "tier2", "fallback"}

\* the ranked list of the invocation
Ranked == _sort_kept(last.kept)

\* C15: for every cap n >= 0 the evidence set embedded in the prompt has at
\* most n items and is the first n items of the ranked list, the whole ranked
\* list when that has fewer than n items
C15_EvidenceIsFirstNRanked ==
    PromptBuilt /\ state.max_kept_articles >= 0 =>
        /\ Len(last.evidence) <= state.max_kept_articles
        /\ Len(last.evidence) =
              (IF Len(Ranked) < state.max_kept_articles THEN Len(Ranked)
               ELSE state.max_kept_articles)
        /\ \A k \in 1..Len(last.evidence) :
              /\ last.evidence[k].title = Ranked[k].title
              /\ last.evidence[k].url = Ranked[k].url
              /\ last.evidence[k].relevance_score = Ranked[k].relevance_score

\* two items were kept and the cap of one left the top-ranked one
C15_CapCutsRankedList ==
    /\ pc = "news_done"
    /\ last.path \in {"tier1", "tier2"}
    /\ state.max_kept_articles = 1
    /\ Len(last.kept) = 2
    /\ Len(last.evidence) = 1
    /\ last.evidence[1].relevance_score = 100
    /\ last.kept[1].relevance_score = 32

\* the step is one Stage invocation, returning or raising
StageStep == pc = "running" /\ (executed' # executed \/ pc' = "aborted")

\* the keys of the records of the Stages that ran before n
EarlierKeys(n) ==
    {OwnKey(StageOrder[i]) : i \in {j \in 1..Len(StageOrder) :
                                     \E m \in j + 1..Len(StageOrder) : StageOrder[m] = n}}

StageReturned ==
    /\ pc \in {"running", "returned"}
    /\ executed # <<>>
    /\ last.node = executed[Len(executed)]
    /\ ~last.raised

\* C17: after any Stage returns, by extraction, static fallback or collector
\* short-circuit, the transcript of the WorkItem is exactly two messages, the
\* request summary followed by the response summary of that Stage
C17_TranscriptIsOnePair ==
    StageReturned =>
        state.messages = <<HumanMessage(last.node), AIMessage(last.node)>>

\* the stage-specific keys of a Stage
StageKeys(n) ==
    IF n = "supervisor" THEN {"decision", "rationale", "confidence", "supervisor_decision"}
    ELSE {OwnKey(n)}

\* C18: a Stage's update changes only its own stage-specific key(s) and the
\* transcript; the identifier, the date and the records of the other Stages
\* keep their values, and nothing but a returning Stage changes the WorkItem
\* while the run lasts, so each record keeps the value it was first given
C18_StageWritesOnlyOwnKeys ==
    [][pc = "running" =>
          IF executed' # executed
          THEN /\ DOMAIN last'.update \subseteq StageKeys(last'.node) \cup {"messages"}
               /\ DOMAIN state' = DOMAIN state
               /\ \A k \in DOMAIN state \ (StageKeys(last'.node) \cup {"messages"}) :
                     state'[k] = state[k]
          ELSE state' = state]_vars

\* the last Stage has returned and the earlier records and the identifier
\* are in the WorkItem, none of them in the last update
C18_EarlierRecordsSurvive ==
    /\ Len(executed) = Len(StageOrder)
    /\ last.node = "supervisor"
    /\ DOMAIN last.update \cap {"ticker", "date", "market_analysis", "fundamental_analysis",
                                 "bull_argument", "bear_argument"} = {}
    /\ state.ticker = "ZZZZ"
    /\ \A n \in Nodes : state[OwnKey(n)] # <<>>

\* the path the transport of a Stage offers
PathOffered(n) == IF llm_caps[LlmOf(n)] THEN "structured" ELSE "raw"

\* C19: in one Stage invocation the model is called at most once: exactly
\* once when the Stage reaches the Extractor, through the schema-enforced
\* path when the transport supports it and otherwise through the raw-text
\* path, never both, and not at all on a collector short-circuit
C19_AtMostOneModelCall ==
    last.node \in Nodes =>
        /\ last.model_calls = Len(last.invoked)
        /\ last.model_calls <= 1
        /\ last.path = "short_circuit" => last.invoked = <<>>
        /\ last.path # "short_circuit" => last.invoked = <<PathOffered(last.node)>>

\* a schema-enforced call failed and the Stage fell back without a second call
C19_FailedStructuredCallNotRetried ==
    /\ last.node \in Nodes
    /\ llm_caps[LlmOf(last.node)]
    /\ last.llm = "raise"
    /\ last.path = "fallback"
    /\ last.invoked = <<"structured">>

\* C20: on the raw-text path a response wrapped in a single pair of code
\* fences with a language tag yields the same record as the same content with
\* no fences, for every language tag and every schema-valid content
C20_FencedParsesAsUnfenced ==
    pc = "extract_done" =>
        /\ fn_out.bare.tier = "tier2"
        /\ fn_out.bare.json = fn_in.content
        /\ fn_out.fenced = fn_out.bare

\* C30: for every integer lookback window the caller supplies, the news Stage
\* returns a record and does not raise: building the nothing-kept record and
\* building the parsing-fallback record never fail, whatever the lookback
C30_FallbackRecordsAlwaysBuild ==
    last.node = "news_analyst" =>
        (last.path \in {"short_circuit", "fallback"} => ~last.raised /\ pc = "news_done")

\* the keys analyze documents for the state it returns
ReturnedKeys ==
    {"ticker", "date", "market_analysis", "fundamental_analysis", "bull_argument",
     "bear_argument", "decision", "rationale", "confidence"}

\* C24: analyze returns the final state with all analysis results
\* (market_analysis, fundamental_analysis, bull_argument, bear_argument,
\* decision, rationale, confidence, with ticker and date) in standard mode and
\* in debug mode, the same state in both for the same Stage outputs
C24_BothModesReturnFinalState ==
    pc = "returned" =>
        /\ ReturnedKeys \subseteq DOMAIN result
        /\ \A k \in ReturnedKeys \cap DOMAIN result : result[k] = state[k]

\* C25: every run eventually terminates, returning right after the synthesis
\* Stage or aborting on a Stage's exception, and no Stage is executed more
\* than once in a run
C25_RunTerminates ==
    /\ [](\A i, j \in 1..Len(executed) : i # j => executed[i] # executed[j])
    /\ [](pc = "returned" => executed # <<>> /\ executed[Len(executed)] = "supervisor")
    /\ (pc = "running" ~> pc \in {"returned", "aborted"})

\* a run aborted on the exception of a Stage after earlier Stages had returned
C25_AbortedMidRun ==
    /\ pc = "aborted"
    /\ last.raised
    /\ Len(executed) \in 1..(Len(StageOrder) - 1)
    /\ last.node = StageOrder[Len(executed) + 1]

\* the synthesis Stage has returned and its update is merged
SynthesisReturned == StageReturned /\ last.node = "supervisor"

\* the supervisor_decision record of the WorkItem, parsed back
ParsedDecision == json_loads(<<Body(state.supervisor_decision[1])>>).value[1]

\* C28: after the synthesis Stage returns, the top-level decision, rationale
\* and confidence of the WorkItem equal consensus_direction, executive_summary
\* and final_confidence of the serialized supervisor_decision record written
\* in the same update, whichever tier produced the record
C28_TopLevelMirrorsDecisionRecord ==
    SynthesisReturned =>
        /\ state.supervisor_decision = last.update.supervisor_decision
        /\ state.decision = ParsedDecision.consensus_direction
        /\ state.rationale = ParsedDecision.executive_summary
        /\ state.confidence = ParsedDecision.final_confidence

\* an extracted decision other than the initial label reached the top level
C28_ExtractedLabelAtTopLevel ==
    /\ SynthesisReturned
    /\ last.path \in {"tier1", "tier2"}
    /\ state.decision # "neutral"
    /\ state.decision = ParsedDecision.consensus_direction

\* the upstream record under k has not been produced in the WorkItem handed over
NotProduced(k) == k \notin DOMAIN fn_in.st \/ fn_in.st[k] = <<>>

\* C26: when an upstream record has not been produced by the time a Stage
\* builds its prompt, the Stage embeds its fixed placeholder text for that
\* record and never an empty value, also for the WorkItem as the Pipeline
\* initialises it
C26_PlaceholderForAbsentRecord ==
    pc = "stage_done" =>
        \A k \in ReadKeys(fn_in.node) :
            /\ fn_out.read[k] # <<>>
            /\ NotProduced(k) => fn_out.read[k] = Placeholder(k)

\* the texts left by removing no or one opening fence marker, with or without
\* the language tag after it, from the front of a text
OpeningRemoved(t) ==
    {t} \cup (IF startswith(t, <<Fence>>) THEN {Tail(t)} ELSE {})
        \cup (IF Len(t) >= 2 /\ t[1] = Fence /\ t[2] \in {JsonTag, OtherTag}
              THEN {SubSeq(t, 3, Len(t))} ELSE {})

\* the texts left by removing no or one closing fence marker from the end
ClosingRemoved(t) ==
    {t} \cup (IF endswith(t, <<Fence>>) THEN {SubSeq(t, 1, Len(t) - 1)} ELSE {})

\* C27: the fence-stripping step removes at most one opening fence marker
\* (with its optional language tag) and at most one closing fence marker from
\* a response, and never a second opening fence
C27_AtMostOneFenceEachSide ==
    pc = "fence_done" =>
        \E a \in OpeningRemoved(strip(fn_in)) : \E b \in ClosingRemoved(a) : fn_out = strip(b)

\* C21: for every record the market Stage can return, extracted or fallback,
\* parsing the string the Stage writes yields a value equal to the record in
\* every field
C21_ParsedEqualsRecordInEveryField ==
    pc = "dump_done" =>
        /\ DOMAIN fn_out.parsed = DOMAIN fn_out.record
        /\ \A f \in DOMAIN fn_out.record : PyEq(fn_out.parsed[f], fn_out.record[f])

\* C29: dedupe, normalize, score and filter, rank, cap, run in that order on
\* raw items whose title, locator, source, body or timestamp is missing or
\* null, never raise
C29_SelectorNeverRaisesOnMissingFields ==
    pc # "select_raised"

(***************************************************************************)
(* The web front end: one run per WebSocket connection                     *)
(***************************************************************************)
Connections == {"ws1", "ws2"}

\* whether the model transport answers during a run: every Stage of the run
\* then returns an extracted record, or every Stage its static fallback
Transports == {"extracted", "fallback"}

\* what a client sends, and the transport its run will meet
Requests == [ticker : Tickers, date : Dates, transport : Transports]

\* run_analysis_with_progress: "Create initial state for the graph"
web_initial_state(ticker, date) ==
    [ticker |-> ticker, date |-> date, messages |-> <<>>,
     news_analysis |-> <<>>, market_analysis |-> <<>>, fundamental_analysis |-> <<>>,
     bull_argument |-> <<>>, bear_argument |-> <<>>,
     decision |-> "neutral", rationale |-> "", confidence |-> 0,
     supervisor_decision |-> <<>>]

\* the update a Stage returns: its record is made from the ticker and date of
\* the state it is handed
stage_update(node, st, transport) ==
    LET record == <<[of |-> st.ticker, on |-> st.date, by |-> node, path |-> transport]>>
    IN  IF node = "supervisor"
        THEN [messages |-> <<AIMessage(node)>>, supervisor_decision |-> record,
              decision |-> "hold", rationale |-> "summary", confidence |-> 50]
        ELSE (OwnKey(node) :> record) @@ [messages |-> <<AIMessage(node)>>]

\* accumulated_state.update(node_state) were the dict held at module level
\* and updated by the thread of every connection
accumulate_in_module_dict(runs, c, node_state) ==
    LET other == CHOOSE d \in Connections : d # c
        held == IF runs[other].thread = "not_started" THEN runs[c].accumulated_state
                ELSE runs[other].accumulated_state
    IN  Merge(held, node_state)

\* accumulated_state.update(node_state): the dict is local to the call of
\* run_graph_stream that serves connection c
accumulate(runs, c, node_state) == Merge(runs[c].accumulated_state, node_state)

\* the node graph.stream runs next, "END" after the last
next_node(run) ==
    IF run.current_node = "none" THEN EntryPoint
    ELSE IF Successors(run.current_node) = {} THEN "END"
    ELSE CHOOSE n \in Successors(run.current_node) : TRUE

\* calculate_progress_from_node
calculate_progress_from_node(node_name) ==
    CASE node_name = "news_analyst" -> 20
      [] node_name = "market_analyst" -> 35
      [] node_name = "fundamentals_analyst" -> 50
      [] node_name = "bull_debater" -> 65
      [] node_name = "bear_debater" -> 80
      [] node_name = "supervisor" -> 95
      [] OTHER -> 0

\* "Parse and structure the results"
structured_result(res) ==
    [ticker |-> res.ticker, date |-> res.date, decision |-> res.decision,
     confidence |-> res.confidence, rationale |-> res.rationale,
     agents |-> [market_analyst |-> res.market_analysis,
                 fundamentals_analyst |-> res.fundamental_analysis,
                 news_analyst |-> res.news_analysis,
                 bull_debater |-> res.bull_argument,
                 bear_debater |-> res.bear_argument,
                 supervisor |-> res.supervisor_decision],
     from_cache |-> FALSE]

IdleRun ==
    [ws |-> "waiting", sent |-> <<>>, last_progress |-> 0, thread |-> "not_started",
     current_node |-> "none", graph_state |-> NoState, accumulated_state |-> NoState]

InitWeb ==
    /\ pc = "serving"
    /\ IdleGraph
    /\ fn_in \in {f \in [Connections -> Requests] : f["ws1"].ticker # f["ws2"].ticker}
    /\ fn_out = [runs |-> [c \in Connections |-> IdleRun], cache |-> <<>>]

WebUnchanged == UNCHANGED <<pc, debug, llm_caps, state, frontier, executed, last, result, fn_in>>

\* websocket_endpoint receives the request; run_analysis_with_progress goes
\* as far as asyncio.create_task
ws_receive(c) ==
    /\ fn_out.runs[c].ws = "waiting"
    /\ fn_out' = [fn_out EXCEPT !.runs[c] =
                    [@ EXCEPT !.ws = "monitoring",
                              !.sent = <<[type |-> "start"], [type |-> "progress"], [type |-> "progress"]>>,
                              !.last_progress = 5,
                              !.thread = "running",
                              !.graph_state = web_initial_state(fn_in[c].ticker, fn_in[c].date),
                              !.accumulated_state = web_initial_state(fn_in[c].ticker, fn_in[c].date)]]
    /\ WebUnchanged

\* one turn of the for loop of run_graph_stream, in the worker thread; the
\* thread is not stopped by stream_task.cancel()
thread_step(c) ==
    LET run == fn_out.runs[c]
        n == next_node(run)
        node_state == stage_update(n, run.graph_state, fn_in[c].transport)
    IN  /\ run.thread = "running"
        /\ n # "END"
        /\ fn_out' = [fn_out EXCEPT !.runs[c] =
                        [@ EXCEPT !.current_node = n,
                                  !.graph_state = Merge(run.graph_state, node_state),
                                  !.accumulated_state = accumulate(fn_out.runs, c, node_state)]]
        /\ WebUnchanged

\* a node raises inside graph.stream: the thread ends with the exception
thread_raises(c) ==
    /\ fn_out.runs[c].thread = "running"
    /\ next_node(fn_out.runs[c]) # "END"
    /\ fn_out' = [fn_out EXCEPT !.runs[c].thread = "raised"]
    /\ WebUnchanged

\* run_graph_stream returns accumulated_state
thread_returns(c) ==
    /\ fn_out.runs[c].thread = "running"
    /\ next_node(fn_out.runs[c]) = "END"
    /\ fn_out' = [fn_out EXCEPT !.runs[c].thread = "done"]
    /\ WebUnchanged

\* one turn of the monitoring loop that finds the deadline not yet passed
ws_poll(c) ==
    LET run == fn_out.runs[c]
        progress == calculate_progress_from_node(run.current_node)
    IN  /\ run.ws = "monitoring"
        /\ run.thread = "running"
        /\ run.current_node # "none"
        /\ progress > run.last_progress
        /\ fn_out' = [fn_out EXCEPT !.runs[c] =
                        [@ EXCEPT !.sent = Append(@, [type |-> "progress"]),
                                  !.last_progress = progress]]
        /\ WebUnchanged

\* elapsed > 300: cancel, raise asyncio.TimeoutError, send the error, re-raise;
\* websocket_endpoint catches it and sends the error message
ws_timeout(c) ==
    /\ fn_out.runs[c].ws = "monitoring"
    /\ fn_out.runs[c].thread = "running"
    /\ fn_out' = [fn_out EXCEPT !.runs[c] =
                    [@ EXCEPT !.ws = "timed_out",
                              !.sent = @ \o <<[type |-> "error"], [type |-> "error"]>>]]
    /\ WebUnchanged

\* result = await stream_task re-raises what the thread raised
ws_error(c) ==
    /\ fn_out.runs[c].ws = "monitoring"
    /\ fn_out.runs[c].thread = "raised"
    /\ fn_out' = [fn_out EXCEPT !.runs[c] =
                    [@ EXCEPT !.ws = "failed", !.sent = Append(@, [type |-> "error"])]]
    /\ WebUnchanged

\* the task is done: final progress, cache_manager.save_cache, "complete"
ws_complete(c) ==
    LET run == fn_out.runs[c]
        res == run.accumulated_state
        key == <<fn_in[c].ticker, fn_in[c].date>>
    IN  /\ run.ws = "monitoring"
        /\ run.thread = "done"
        /\ fn_out' = [fn_out EXCEPT
                        !.runs[c] = [@ EXCEPT !.ws = "complete",
                                              !.sent = @ \o <<[type |-> "progress"],
                                                              [type |-> "complete", result |-> structured_result(res)]>>],
                        !.cache = (key :> [k \in DOMAIN res \ {"messages"} |-> res[k]]) @@ @]
        /\ WebUnchanged

NextWeb ==
    \E c \in Connections :
        \/ ws_receive(c)
        \/ thread_step(c)
        \/ thread_raises(c)
        \/ thread_returns(c)
        \/ ws_poll(c)
        \/ ws_timeout(c)
        \/ ws_error(c)
        \/ ws_complete(c)

SpecWeb == InitWeb /\ [][NextWeb]_vars

\* the messages of one type sent on a connection
SentOfType(c, type) == {i \in 1..Len(fn_out.runs[c].sent) : fn_out.runs[c].sent[i].type = type}

\* C22: when the deadline of the front end expires during a run, the caller
\* still receives a result (built from static fallback records), not only an
\* error
C22_ExpiryYieldsFallbackResult ==
    \A c \in Connections :
        fn_out.runs[c].ws = "timed_out" => SentOfType(c, "complete") # {}

RecordKeys == {"news_analysis", "market_analysis", "fundamental_analysis", "bull_argument", "bear_argument", "supervisor_decision"}

\* the WorkItem holds the identifier and date of its own request, and only
\* records made by Stages that were handed that identifier and date
OwnWorkItem(c, st) ==
    /\ st.ticker = fn_in[c].ticker
    /\ st.date = fn_in[c].date
    /\ \A k \in RecordKeys :
          st[k] # <<>> => st[k][1].of = fn_in[c].ticker /\ st[k][1].on = fn_in[c].date

====
